---------------------------- MODULE Spec2Model ----------------------------
(***************************************************************************)
(* A model of the HRRR wind pipeline of this repository:                   *)
(*   scripts/wind/extract_wind_from_grib.py  (cycle resolver, resampler,   *)
(*                                            codec, batch driver)         *)
(*   scripts/wind/generate_wind_tiles.py     (codec, tile partitioner,     *)
(*                                            batch driver)                *)
(*                                                                         *)
(* Each component has its own specification over the shared variables; a   *)
(* component that a specification does not exercise stays in its idle      *)
(* state.  Real numbers are carried exactly as scaled integers; floating   *)
(* point rounding error of the interpreter is not modelled.                *)
(***************************************************************************)
EXTENDS Integers, Sequences, FiniteSets, TLC

VARIABLES
    \* ---- cycle resolver (extract_wind_from_grib.get_best_hrrr_cycle)
    target_time,    \* the requested valid time, seconds since day 0 00:00 UTC
    selection,      \* the (cycle_str, fxx) returned, or NoSelection
    fxx_offset,     \* process_herbie: the forecast offset being processed
    artifact_name,  \* process_herbie: the basename wind_{date}_t{cycle}z_f{lead}
    \* ---- scalar codec (encode_wind_component / decode_wind_component)
    wind_value,     \* a wind component, in units of 1/ValueDen m/s
    encoder,        \* "none", or the script whose encoder ran: "tiles" | "extract"
    encoded,        \* the byte produced by the encoder, or NoByte
    decoded,        \* 255 * ValueDen * (the decoded m/s value), or NotDecoded
    \* ---- image codec (create_wind_image, create_wind_image_legacy)
    u_data,         \* rows of cells: a cell is NaN or a value in 1/ValueDen m/s
    v_data,
    valid_mask,     \* rows of BOOLEAN, or NoMask when the argument is None
    wind_img,       \* rows of <<R, G, B, A>> pixels, or NoImage
    img_call,       \* which function built wind_img
    nan_cast,       \* what astype(np.uint8) made of not-a-number in that call
    \* ---- grid resampler (extract_wind_from_grib.reproject_to_wgs84)
    lats,           \* lats.ravel(): source latitudes, hundredths of a degree
    lons,           \* lons.ravel(): source longitudes, hundredths of a degree
    src_u,          \* u_data.ravel()
    src_v,          \* v_data.ravel()
    tgt_points,     \* the target points <<lat, lon>> in query order (scaled)
    nn_dist2,       \* per target point: squared distance to the sample found
    nn_idx,         \* per target point: index of the sample found
    u_out,          \* the returned arrays, OUTPUT_HEIGHT rows of OUTPUT_WIDTH
    v_out,
    mask,
    resampled,      \* whether reproject_to_wgs84 has returned
    has_scipy,      \* HAS_SCIPY: the import of scipy.spatial.cKDTree succeeded
    resample_error, \* the exception reproject_to_wgs84 raised, NoError if none
    \* ---- tile partitioner (generate_wind_tiles.generate_tiles)
    bounds,         \* metadata['bounds']: west/east in tenths of a degree,
                    \* south/north in thousandths of a degree
    img_shape,      \* u_data.shape: <<img_height, img_width>>
    zoom,           \* the zoom level the outer loop is about to process
    tiles,          \* the tiles saved so far, in the order they were saved
    tile_count,     \* the running tile_count
    tiles_returned, \* whether generate_tiles has returned tile_count
    \* ---- batch drivers (extract_wind_from_grib.main, generate_wind_tiles.main)
    entry,          \* "herbie" / "legacy" (extract_wind_from_grib.main) or
                    \* "tiles" (generate_wind_tiles.main)
    preflight_ok,   \* HAS_HERBIE and HAS_SCIPY (herbie), args.input.exists() (legacy)
    s3_enabled,     \* args.s3_bucket is given (extract), not args.dry_run (tiles)
    num_units,      \* len(forecast_hours) or len(all_files)
    unit,           \* position of the batch loop, 1..num_units + 1
    pc,             \* the step the run is about to take
    processed,      \* the counter `processed` of process_herbie / process_grib_files
    outcome,        \* per unit: "pending", "skipped", "processed" or "failed"
    latest_metadata,\* generate_wind_tiles.main: latest_metadata is not None
    exit_status,    \* exit status of the process, NoExit while it runs
    unit_tiles,     \* per unit: the number of tiles generate_tiles yields for its data
    generated,      \* per unit: the number of artifacts written locally
                    \* (tiles, or the PNG and the JSON of the extract script)
    total_tiles,    \* generate_wind_tiles.main: total_tiles
    published,      \* per unit: the artifacts (by number) uploaded to the bucket
    sink_calls,     \* the number of upload_file / put_object calls made
    metadata_published, \* whether metadata.json was put to the bucket
    metadata_puts,  \* put_object calls made for metadata.json
    metadata_hours, \* the units listed as forecast_hours in the record sent
    \* ---- two runs of one script side by side, one unit each
    par_entry,      \* "herbie" (extract_wind_from_grib) or "tiles" (generate_wind_tiles)
    par_pc,         \* per run: the step it is about to take
    par_tiles,      \* per run: the number of files its unit yields
    keep_temp,      \* per run: args.keep_temp
    local_files,    \* the files under TEMP_DIR / the output directory: <<unit, number>>
    bucket_objects, \* the tile / image objects in the bucket: <<unit, number>>
    bucket_metadata,\* the run whose metadata.json is in the bucket, NoRun if none
    clobbered,      \* the runs a file or object of which the other run deleted
                    \* or overwrote
    \* ---- longitude conversion of the three decoders
    raw_lons,       \* the longitudes read from the file, hundredths of a degree
    norm_lons,      \* the longitudes handed on, NoLons before the conversion
    lon_decoder,    \* which decoder converted them
    \* ---- legacy encoder (extract_wind_from_grib.create_wind_image_legacy)
    grib_u,         \* u of a GRIB grid, rows by columns
    grib_v,         \* v of the same grid
    legacy_call,    \* "none", "legacy" (the grid as read) or "reflipped" (the
                    \* grid flipped by the caller before the call)
    legacy_cast,    \* the byte the uint8 cast made of not-a-number in the call
    legacy_img      \* the image returned

cycleVars == <<target_time, selection, fxx_offset, artifact_name>>

scalarVars == <<wind_value, encoder, encoded, decoded>>

imageVars == <<u_data, v_data, valid_mask, wind_img, img_call, nan_cast>>

resampleVars == <<lats, lons, src_u, src_v, tgt_points, nn_dist2, nn_idx,
                  u_out, v_out, mask, resampled,
                 has_scipy, resample_error>>

tileVars == <<bounds, img_shape, zoom, tiles, tile_count, tiles_returned>>

batchVars == <<entry, preflight_ok, s3_enabled, num_units, unit, pc, processed,
               outcome, latest_metadata, exit_status, unit_tiles, generated,
               total_tiles, published, sink_calls, metadata_published,
               metadata_puts, metadata_hours>>

\* what the run has written locally and sent to the bucket
sinkVars == <<generated, total_tiles, published, sink_calls, metadata_published,
              metadata_puts, metadata_hours>>

parVars == <<par_entry, par_pc, par_tiles, keep_temp, local_files, bucket_objects,
             bucket_metadata, clobbered>>

lonVars == <<raw_lons, norm_lons, lon_decoder>>

legacyVars == <<grib_u, grib_v, legacy_call, legacy_cast, legacy_img>>

vars == <<cycleVars, scalarVars, imageVars, resampleVars, tileVars, batchVars, parVars,
          lonVars, legacyVars>>

\* what each component leaves alone
exceptCycle == <<scalarVars, imageVars, resampleVars, tileVars, batchVars, parVars, lonVars, legacyVars>>

exceptScalar == <<cycleVars, imageVars, resampleVars, tileVars, batchVars, parVars, lonVars, legacyVars>>

exceptImage == <<cycleVars, scalarVars, resampleVars, tileVars, batchVars, parVars, lonVars, legacyVars>>

exceptResample == <<cycleVars, scalarVars, imageVars, tileVars, batchVars, parVars, lonVars, legacyVars>>

exceptTiles == <<cycleVars, scalarVars, imageVars, resampleVars, batchVars, parVars, lonVars, legacyVars>>

exceptBatch == <<cycleVars, scalarVars, imageVars, resampleVars, tileVars, parVars, lonVars, legacyVars>>

exceptPar == <<cycleVars, scalarVars, imageVars, resampleVars, tileVars, batchVars, lonVars, legacyVars>>

exceptLon == <<cycleVars, scalarVars, imageVars, resampleVars, tileVars, batchVars, parVars, legacyVars>>

exceptLegacy == <<cycleVars, scalarVars, imageVars, resampleVars, tileVars, batchVars, parVars,
                  lonVars>>

(***************************************************************************)
(* Small helpers for exact arithmetic.                                     *)
(***************************************************************************)
Abs(x) == IF x < 0 THEN -x ELSE x

Max(a, b) == IF a >= b THEN a ELSE b

Min(a, b) == IF a <= b THEN a ELSE b

\* Python's int(a / b) for b > 0: truncation toward zero
IntTrunc(a, b) == IF a >= 0 THEN a \div b ELSE -((-a) \div b)

(***************************************************************************)
(* CYCLE RESOLVER                                                          *)
(***************************************************************************)
SecondsPerHour == 3600

SecondsPerDay == 86400

\* Bounds of the requested valid times: hours FirstHour..LastHour counted
\* from day 0 00:00 UTC (so the range crosses midnight), every minute, and
\* the seconds of SecondSamples.
FirstHour == 22

LastHour == 26

SecondSamples == {0, 1, 59}

TargetTimes ==
    { h * SecondsPerHour + m * 60 + s :
        h \in FirstHour..LastHour, m \in 0..59, s \in SecondSamples }

\* the largest first forecast offset of a batch
MaxOffset == 1

NoName == [date |-> -1, cycle |-> -1, lead |-> -1]

NoSelection == [cycle_str |-> <<-1, -1>>, fxx |-> -1, hours_back |-> 0, fallback |-> FALSE]

\* datetime.replace(minute=0, second=0, microsecond=0)
TruncHour(t) == t - (t % SecondsPerHour)

\* strftime('%Y-%m-%d %H:00'): the calendar day and the hour of day; minutes
\* and seconds are not printed (the text ends in the literal ":00")
Strftime(t) == <<t \div SecondsPerDay, (t % SecondsPerDay) \div SecondsPerHour>>

\* datetime.strptime(cycle_str, '%Y-%m-%d %H:%M')
Strptime(cycle_str) == cycle_str[1] * SecondsPerDay + cycle_str[2] * SecondsPerHour

\* fxx = round((target_utc - cycle_time).total_seconds() / 3600): the slip of
\* rounding the lead time to the nearest hour
LeadHoursRounded(target_utc, cycle_time) ==
    (2 * (target_utc - cycle_time) + SecondsPerHour) \div (2 * SecondsPerHour)

\* fxx = int((target_utc - cycle_time).total_seconds() / 3600)
LeadHours(target_utc, cycle_time) ==
    IntTrunc(target_utc - cycle_time, SecondsPerHour)

MaxHoursBack == 5

MaxLeadHours == 18

FallbackHoursBack == 2

\* the for loop over hours_back in range(1, 6), then the fallback
RECURSIVE SearchCycle(_, _)
SearchCycle(target_utc, hours_back) ==
    IF hours_back > MaxHoursBack
    THEN [cycle_str  |-> Strftime(TruncHour(target_utc - FallbackHoursBack * SecondsPerHour)),
          fxx        |-> 0,
          hours_back |-> FallbackHoursBack,
          fallback   |-> TRUE]
    ELSE LET cycle_time == TruncHour(target_utc - hours_back * SecondsPerHour)
             fxx        == LeadHours(target_utc, cycle_time)
         IN  IF 0 <= fxx /\ fxx <= MaxLeadHours
             THEN [cycle_str  |-> Strftime(cycle_time),
                   fxx        |-> fxx,
                   hours_back |-> hours_back,
                   fallback   |-> FALSE]
             ELSE SearchCycle(target_utc, hours_back + 1)

\* the slip of starting the search at range(2, 6)
get_best_hrrr_cycle_from_two(t) == SearchCycle(t, 2)

\* get_best_hrrr_cycle(target_time, logger): the search starts at hours_back = 1
get_best_hrrr_cycle(t) == SearchCycle(t, 1)

\* one call of get_best_hrrr_cycle(target_time)
ResolveCycle ==
    /\ selection = NoSelection
    /\ selection' = get_best_hrrr_cycle(target_time)
    /\ UNCHANGED <<target_time, fxx_offset, artifact_name, exceptCycle>>

\* process_herbie, the output filenames:
\*   date_str   = target_time.strftime('%Y%m%d')
\*   cycle_hour = metadata['cycle'].split()[1].replace(':00', '')
\*   output_fxx = fxx_offset
\*   png_name   = f"wind_{date_str}_t{cycle_hour}z_f{output_fxx:02d}.png"
Basename(target, cycle_str, offset) ==
    [date  |-> target \div SecondsPerDay,
     cycle |-> cycle_str[2],
     lead  |-> offset]

NameArtifacts ==
    /\ selection # NoSelection
    /\ artifact_name = NoName
    /\ artifact_name' = Basename(target_time, selection.cycle_str, fxx_offset)
    /\ UNCHANGED <<target_time, selection, fxx_offset, exceptCycle>>

\* the caller asks for the next valid time (process_herbie: now + offset)
NewTarget ==
    /\ selection # NoSelection
    /\ target_time + SecondsPerHour \in TargetTimes
    /\ target_time' = target_time + SecondsPerHour
    /\ selection' = NoSelection
    /\ fxx_offset' = fxx_offset + 1
    /\ artifact_name' = NoName
    /\ UNCHANGED exceptCycle


\* C1: for every target valid time, get_best_hrrr_cycle returns a cycle on
\* a whole hour with cycle_time + lead_hours equal to the valid time
\* truncated to the hour, and 0 <= lead_hours <= 18.
C1_CyclePlusLeadIsValidHour ==
    selection # NoSelection =>
        LET cycle_time == Strptime(selection.cycle_str)
        IN  /\ cycle_time % SecondsPerHour = 0
            /\ selection.cycle_str[2] \in 0..23
            /\ cycle_time + selection.fxx * SecondsPerHour = TruncHour(target_time)
            /\ 0 <= selection.fxx /\ selection.fxx <= 18

\* a valid time in the second half of an hour, just after midnight, resolved
C1_Witness ==
    /\ selection # NoSelection
    /\ target_time % SecondsPerHour >= 1800
    /\ target_time \div SecondsPerDay = 1
    /\ selection.cycle_str[1] = 0


\* C22: for every target valid time, get_best_hrrr_cycle returns on the first
\* iteration of its search (hours_back = 1) with lead_hours = 1 and the cycle
\* equal to the valid time truncated to the hour minus one hour; the
\* candidates hours_back = 2..5 are never examined and the fallback branch is
\* never taken.
C22_FirstCandidateAlwaysTaken ==
    selection # NoSelection =>
        /\ selection.hours_back = 1
        /\ selection.fxx = 1
        /\ ~selection.fallback
        /\ Strptime(selection.cycle_str) = TruncHour(target_time) - SecondsPerHour

\* the last sampled second of an hour, where the lead is closest to two
\* hours, resolved at the first candidate
C22_Witness ==
    /\ selection # NoSelection
    /\ target_time % SecondsPerHour = 59 * 60 + 59
    /\ selection.hours_back = 1


\* C14: for every unit processed by process_herbie the basename is
\* wind_{date}_t{cycle}z_f{lead} with the date and the hour of the selected
\* model cycle and the selection's lead_hours, so that the name agrees with
\* the cycle and forecast_hour of the unit's metadata, also when the valid
\* time and the cycle fall on different days.
C14_NameMatchesSelection ==
    artifact_name # NoName =>
        artifact_name = [date  |-> selection.cycle_str[1],
                         cycle |-> selection.cycle_str[2],
                         lead  |-> selection.fxx]

(***************************************************************************)
(* VECTOR CODEC: the scalar quantization law                               *)
(***************************************************************************)
\* WIND_MIN, WIND_MAX in m/s (the same in both scripts)
WIND_MIN == -50

WIND_MAX == 50

\* Wind values are multiples of 1/ValueDen m/s, up to MaxWindSample m/s in
\* absolute value (beyond the encoded range on both sides).
ValueDen == 10

MaxWindSample == 52

ScalarValues == (-MaxWindSample * ValueDen)..(MaxWindSample * ValueDen)

NoByte == -1

NotDecoded == -1000000 * ValueDen

\* np.clip(value, lo, hi)
Clip(value, lo, hi) == IF value < lo THEN lo ELSE IF value > hi THEN hi ELSE value

\* (normalized * 255) rounded to the nearest byte: the quantization law with
\* round() in place of the truncating cast
EncodeRounded(value, vmin, vmax) ==
    LET clipped == Clip(value, vmin * ValueDen, vmax * ValueDen)
    IN  (2 * (clipped - vmin * ValueDen) * 255 + (vmax - vmin) * ValueDen)
            \div (2 * (vmax - vmin) * ValueDen)

\* generate_wind_tiles.encode_wind_component on one finite element:
\*   clipped = np.clip(value, vmin, vmax)
\*   normalized = (clipped - vmin) / (vmax - vmin)
\*   (normalized * 255).astype(np.uint8)     -- the cast truncates
encode_wind_component(value, vmin, vmax) ==
    LET clipped == Clip(value, vmin * ValueDen, vmax * ValueDen)
    IN  IntTrunc((clipped - vmin * ValueDen) * 255, (vmax - vmin) * ValueDen)

\* extract_wind_from_grib.encode_wind_component on one finite element (the
\* range is the module's WIND_MIN, WIND_MAX)
extract_encode_wind_component(value) ==
    LET clipped == Clip(value, WIND_MIN * ValueDen, WIND_MAX * ValueDen)
    IN  IntTrunc((clipped - WIND_MIN * ValueDen) * 255, (WIND_MAX - WIND_MIN) * ValueDen)

\* generate_wind_tiles.decode_wind_component on one element:
\*   normalized = encoded / 255.0 ; normalized * (vmax - vmin) + vmin
\* The result is returned times 255 * ValueDen, which is an integer.
decode_wind_component(byte, vmin, vmax) ==
    byte * (vmax - vmin) * ValueDen + vmin * 255 * ValueDen



\* generate_wind_tiles.encode_wind_component(value) with the default range
EncodeTiles ==
    /\ encoder = "none"
    /\ encoder' = "tiles"
    /\ encoded' = encode_wind_component(wind_value, WIND_MIN, WIND_MAX)
    /\ UNCHANGED <<wind_value, decoded, exceptScalar>>

\* extract_wind_from_grib.encode_wind_component(value)
EncodeExtract ==
    /\ encoder = "none"
    /\ encoder' = "extract"
    /\ encoded' = extract_encode_wind_component(wind_value)
    /\ UNCHANGED <<wind_value, decoded, exceptScalar>>

\* decode_wind_component(encoded) with the default range
Decode ==
    /\ encoder # "none"
    /\ decoded = NotDecoded
    /\ decoded' = decode_wind_component(encoded, WIND_MIN, WIND_MAX)
    /\ UNCHANGED <<wind_value, encoder, encoded, exceptScalar>>


\* C2: a wind component of exactly 0 m/s encodes to byte 128, in both
\* script variants.
C2_ZeroEncodesTo128 ==
    (encoder # "none" /\ wind_value = 0) => encoded = 128

\* C3: for every value v in [VMIN, VMAX], decode(encode(v)) differs from v
\* by at most half a quantization step, (VMAX - VMIN)/510.
\*   |decoded/(255 ValueDen) - v/ValueDen| <= (VMAX - VMIN)/510
C3_RoundTripWithinHalfStep ==
    ( /\ decoded # NotDecoded
      /\ WIND_MIN * ValueDen <= wind_value
      /\ wind_value <= WIND_MAX * ValueDen )
        => 2 * Abs(decoded - 255 * wind_value) <= (WIND_MAX - WIND_MIN) * ValueDen

(***************************************************************************)
(* VECTOR CODEC: the RGBA image                                            *)
(***************************************************************************)
\* not-a-number, as a cell of u_data or v_data
NaN == 1000000 * ValueDen

\* The image is ImgHeight rows of one cell each: the encoder works element
\* by element, and only np.flipud looks at the shape (the rows).
ImgHeight == 2

\* (u, v) of one cell, in 1/ValueDen m/s: missing u, missing v, calm, the
\* extreme corner u = v = WIND_MAX, and an ordinary wind
CellSamples ==
    { <<NaN, 0>>, <<120, NaN>>, <<0, 0>>,
      <<WIND_MAX * ValueDen, WIND_MAX * ValueDen>>, <<300, -400>>,
      <<(WIND_MAX + 10) * ValueDen, 0>>,
      <<(WIND_MAX + 10) * ValueDen, -(WIND_MAX + 2) * ValueDen>> }

\* astype(np.uint8) of not-a-number is undefined behaviour of the C cast
\* underneath: any byte may come out.  One outcome is drawn per call.
NaNCastOutcomes == 0..255

NoMask == <<>>

NoImage == <<>>

Rows == 1..ImgHeight

Cols == {1}

\* floor(sqrt(n)) clipped to 255, for n >= 0
SqrtByte(n) ==
    IF n >= 255 * 255 THEN 255
    ELSE CHOOSE r \in 0..255 : r * r <= n /\ n < (r + 1) * (r + 1)

\* one element of r_channel / g_channel in extract_wind_from_grib:
\* encode_wind_component(x), np.clip and the arithmetic keep not-a-number,
\* and the cast to uint8 makes byte c of it; np.nan_to_num on the uint8
\* array that results changes nothing
extract_encode_cell(x, c) ==
    IF x = NaN THEN c ELSE extract_encode_wind_component(x)

\* the same element in generate_wind_tiles
encode_cell(x, c) ==
    IF x = NaN THEN c ELSE encode_wind_component(x, WIND_MIN, WIND_MAX)

\* floor(255 * 255 * a / b) for 0 <= a < b, in two steps that stay inside
\* TLC's 32-bit integers
Scale255Squared(a, b) ==
    255 * ((255 * a) \div b) + (255 * ((255 * a) % b)) \div b

\* the slip of taking the magnitude of the clipped components
magnitude_byte_clipped(u, v, c) ==
    IF u = NaN \/ v = NaN THEN c
    ELSE LET cu == Clip(u, WIND_MIN * ValueDen, WIND_MAX * ValueDen)
             cv == Clip(v, WIND_MIN * ValueDen, WIND_MAX * ValueDen)
             m  == cu * cu + cv * cv
             M  == 2 * WIND_MAX * WIND_MAX * ValueDen * ValueDen
         IN  IF m >= M THEN 255
             ELSE CHOOSE r \in 0..255 :
                     r * r * (M \div 25) <= 2601 * m /\ 2601 * m < (r + 1) * (r + 1) * (M \div 25)

\* one element of b_channel (the same code in both scripts):
\*   magnitude = sqrt(u**2 + v**2); max_speed = sqrt(WIND_MAX**2 + WIND_MAX**2)
\*   np.clip(magnitude / max_speed * 255, 0, 255).astype(np.uint8)
\* floor(255 * sqrt(m / M)) = floor(sqrt(floor(255 * 255 * m / M)))
magnitude_byte(u, v, c) ==
    IF u = NaN \/ v = NaN THEN c
    ELSE LET m == u * u + v * v
             M == 2 * WIND_MAX * WIND_MAX * ValueDen * ValueDen
         IN  IF m >= M THEN 255 ELSE SqrtByte(Scale255Squared(m, M))

\* the slip of letting not-a-number clear alpha also when a mask is passed
extract_alpha_nan_first(u, v, has_mask, m) ==
    IF u = NaN \/ v = NaN THEN 0
    ELSE IF has_mask THEN (IF m THEN 255 ELSE 0)
    ELSE 255

\* one element of a_channel in extract_wind_from_grib.create_wind_image
extract_alpha(u, v, has_mask, m) ==
    IF has_mask
    THEN (IF m THEN 255 ELSE 0)
    ELSE (IF u = NaN \/ v = NaN THEN 0 ELSE 255)

\* one element of a_channel in generate_wind_tiles.create_wind_image
alpha(u, v) == IF u = NaN \/ v = NaN THEN 0 ELSE 255

\* extract_wind_from_grib.create_wind_image(u_data, v_data, valid_mask)
extract_create_wind_image(u, v, vmask, c) ==
    [i \in DOMAIN u |->
        [j \in DOMAIN u[i] |->
            << extract_encode_cell(u[i][j], c),
               extract_encode_cell(v[i][j], c),
               magnitude_byte(u[i][j], v[i][j], c),
               extract_alpha(u[i][j], v[i][j], vmask # NoMask,
                             IF vmask # NoMask THEN vmask[i][j] ELSE FALSE) >>]]

\* generate_wind_tiles.create_wind_image(u_data, v_data)
create_wind_image(u, v, c) ==
    [i \in DOMAIN u |->
        [j \in DOMAIN u[i] |->
            << encode_cell(u[i][j], c),
               encode_cell(v[i][j], c),
               magnitude_byte(u[i][j], v[i][j], c),
               alpha(u[i][j], v[i][j]) >>]]

\* the slip of leaving the rows as they are
flipud_omitted(a) == a

\* np.flipud
flipud(a) == [i \in DOMAIN a |-> a[Len(a) + 1 - i]]

\* extract_wind_from_grib.create_wind_image_legacy(u_data, v_data)
create_wind_image_legacy(u, v, c) ==
    extract_create_wind_image(flipud(u), flipud(v), NoMask, c)

HasNaN(u, v) ==
    \E i \in DOMAIN u : \E j \in DOMAIN u[i] : u[i][j] = NaN \/ v[i][j] = NaN

CastOutcomes(u, v) == IF HasNaN(u, v) THEN NaNCastOutcomes ELSE {0}


\* The arrays handed to the encoder.  With a mask (the resampled field of
\* reproject_to_wgs84) the cells the mask rules out hold u = v = 0, as the
\* resampler leaves them.
MaskedField(cells, vmask, k) ==
    [i \in Rows |-> [j \in Cols |->
        IF vmask # NoMask /\ ~vmask[i][j] THEN 0 ELSE cells[i][j][k]]]

\* generate_wind_tiles.generate_tiles line 288: create_wind_image(u, v)
CreateWindImageTiles ==
    /\ img_call = "none"
    /\ valid_mask = NoMask
    /\ \E c \in CastOutcomes(u_data, v_data) :
          /\ nan_cast' = c
          /\ wind_img' = create_wind_image(u_data, v_data, c)
    /\ img_call' = "tiles"
    /\ UNCHANGED <<u_data, v_data, valid_mask, exceptImage>>

\* process_herbie line 310: create_wind_image(u_reproj, v_reproj, valid_mask),
\* or a call without the mask
CreateWindImageExtract ==
    /\ img_call = "none"
    /\ \E c \in CastOutcomes(u_data, v_data) :
          /\ nan_cast' = c
          /\ wind_img' = extract_create_wind_image(u_data, v_data, valid_mask, c)
    /\ img_call' = "extract"
    /\ UNCHANGED <<u_data, v_data, valid_mask, exceptImage>>

\* process_grib_files line 492: create_wind_image_legacy(u_data, v_data)
CreateWindImageLegacy ==
    /\ img_call = "none"
    /\ valid_mask = NoMask
    /\ \E c \in CastOutcomes(u_data, v_data) :
          /\ nan_cast' = c
          /\ wind_img' = create_wind_image_legacy(u_data, v_data, c)
    /\ img_call' = "legacy"
    /\ UNCHANGED <<u_data, v_data, valid_mask, exceptImage>>


\* C4: in the image produced by create_wind_image, every pixel whose source u
\* or v is not-a-number, and every pixel the resampler marked invalid
\* (valid_mask false), has alpha 0 and R = G = 128 (and B = 0 for the
\* not-a-number pixels).
C4_InvalidPixelsAreSentinel ==
    img_call \in {"tiles", "extract"} =>
        \A i \in Rows : \A j \in Cols :
            LET nan == u_data[i][j] = NaN \/ v_data[i][j] = NaN
                out == valid_mask # NoMask /\ ~valid_mask[i][j]
                px  == wind_img[i][j]
            IN  /\ (nan \/ out) => (px[4] = 0 /\ px[1] = 128 /\ px[2] = 128)
                /\ nan => px[3] = 0


\* the row of u_data / v_data that row i of the image was made from
SourceRow(i) == IF img_call = "legacy" THEN Len(u_data) + 1 - i ELSE i

\* C18: when a valid_mask is passed to create_wind_image, alpha is 255
\* exactly where the mask is true and 0 exactly where it is false, whatever
\* u and v are there (not-a-number included); when no mask is passed, alpha
\* is 0 exactly where u or v is not-a-number and 255 elsewhere.  Alpha is
\* never anything but 0 or 255.
C18_MaskPrecedence ==
    img_call # "none" =>
        \A i \in Rows : \A j \in Cols :
            LET a   == wind_img[i][j][4]
                nan == u_data[SourceRow(i)][j] = NaN \/ v_data[SourceRow(i)][j] = NaN
            IN  /\ a \in {0, 255}
                /\ IF valid_mask # NoMask
                   THEN a = 255 <=> valid_mask[i][j]
                   ELSE a = 0 <=> nan

\* an image made with a mask that is true at a not-a-number cell and false
\* at another cell
C18_Witness ==
    /\ img_call = "extract"
    /\ valid_mask # NoMask
    /\ \E i \in Rows : \E j \in Cols :
          valid_mask[i][j] /\ u_data[i][j] = NaN /\ wind_img[i][j][4] = 255
    /\ \E i \in Rows : \E j \in Cols :
          ~valid_mask[i][j] /\ wind_img[i][j][4] = 0


\* u^2 + v^2 of the cell that pixel (i, j) was made from
Magnitude2(i, j) ==
    u_data[SourceRow(i)][j] * u_data[SourceRow(i)][j]
        + v_data[SourceRow(i)][j] * v_data[SourceRow(i)][j]

\* (sqrt(2) * VMAX)^2 in the units of Magnitude2
MaxSpeed2 == 2 * WIND_MAX * WIND_MAX * ValueDen * ValueDen

\* the pixels made from a cell with numbers for u and v
NumberPixels ==
    { p \in Rows \X Cols :
        u_data[SourceRow(p[1])][p[2]] # NaN /\ v_data[SourceRow(p[1])][p[2]] # NaN }

\* C19: for every (u, v) without not-a-number, channel 2 is
\* clamp(sqrt(u^2 + v^2) / sqrt(2 VMAX^2) * 255, 0, 255) cut to a byte,
\* from the unclipped u and v: b <= 255 sqrt(m / M) < b + 1 below the
\* maximum, stated on the squares (both sides divided by 25); 0 for
\* u = v = 0; 255 from magnitude sqrt(2) VMAX upwards; non-decreasing in the
\* magnitude.
C19_MagnitudeChannel ==
    img_call # "none" =>
        \A p \in NumberPixels :
            LET b == wind_img[p[1]][p[2]][3]
                m == Magnitude2(p[1], p[2])
            IN  /\ b \in 0..255
                /\ m = 0 => b = 0
                /\ m >= MaxSpeed2 <=> b = 255
                /\ m < MaxSpeed2 =>
                      /\ b * b * (MaxSpeed2 \div 25) <= 2601 * m
                      /\ 2601 * m < (b + 1) * (b + 1) * (MaxSpeed2 \div 25)
                /\ \A q \in NumberPixels :
                      Magnitude2(q[1], q[2]) >= m => wind_img[q[1]][q[2]][3] >= b

\* an image with a pixel from a component above VMAX whose magnitude is
\* below the maximum, and a pixel at u = v = VMAX
C19_Witness ==
    /\ img_call # "none"
    /\ \E p \in NumberPixels :
          /\ u_data[SourceRow(p[1])][p[2]] > WIND_MAX * ValueDen
          /\ Magnitude2(p[1], p[2]) < MaxSpeed2
          /\ wind_img[p[1]][p[2]][3] \in 1..254
    /\ \E p \in NumberPixels :
          /\ u_data[SourceRow(p[1])][p[2]] = WIND_MAX * ValueDen
          /\ v_data[SourceRow(p[1])][p[2]] = WIND_MAX * ValueDen
          /\ wind_img[p[1]][p[2]][3] = 255

(***************************************************************************)
(* GRID RESAMPLER: reproject_to_wgs84                                      *)
(*                                                                         *)
(* Coordinates are hundredths of a degree.  The target grid of the model   *)
(* is a small window at the north-west corner of OUTPUT_BOUNDS.            *)
(***************************************************************************)
\* the distance cutoff, 0.15 degrees (dist <= 0.15)
MaxDistance == 15

\* the target raster: OUTPUT_WIDTH x OUTPUT_HEIGHT points over a window
\* GridSpan hundredths of a degree wide and high
OUTPUT_WIDTH == 2

OUTPUT_HEIGHT == 2

GridSpan == 30

OUTPUT_BOUNDS ==
    [west |-> -13410, east |-> -13410 + GridSpan,
     south |-> 5260 - GridSpan, north |-> 5260]

\* number of source samples
NumSrc == 2

\* where a source sample may lie, and what it carries
SrcLats == { OUTPUT_BOUNDS.north + 9, OUTPUT_BOUNDS.north,
             OUTPUT_BOUNDS.north - 15, OUTPUT_BOUNDS.north - 46 }

SrcLons == { OUTPUT_BOUNDS.west, OUTPUT_BOUNDS.west + 12, OUTPUT_BOUNDS.west + 46 }

SrcU == [k \in 1..NumSrc |-> 10 * k + 3]

SrcV == [k \in 1..NumSrc |-> -(20 * k + 1)]

\* np.linspace(start, stop, num): element i is start + i (stop - start)/(num - 1);
\* the elements are returned times LinDen(num)
LinDen(num) == IF num > 1 THEN num - 1 ELSE 1

linspace(start, stop, num) ==
    [i \in 1..num |-> start * LinDen(num) + (i - 1) * (stop - start)]

\* tgt_lats = np.linspace(S, N, OUTPUT_HEIGHT): the slip of a south-up grid
tgt_lats_south_up == linspace(OUTPUT_BOUNDS.south, OUTPUT_BOUNDS.north, OUTPUT_HEIGHT)

\* tgt_lons = np.linspace(W, E, OUTPUT_WIDTH), times LinDen(OUTPUT_WIDTH)
tgt_lons == linspace(OUTPUT_BOUNDS.west, OUTPUT_BOUNDS.east, OUTPUT_WIDTH)

\* tgt_lats = np.linspace(N, S, OUTPUT_HEIGHT), times LinDen(OUTPUT_HEIGHT)
tgt_lats == linspace(OUTPUT_BOUNDS.north, OUTPUT_BOUNDS.south, OUTPUT_HEIGHT)

\* every coordinate is compared on the common scale CoordScale
CoordScale == LinDen(OUTPUT_WIDTH) * LinDen(OUTPUT_HEIGHT)

\* np.meshgrid(tgt_lons, tgt_lats), ravel() and column_stack: the target
\* point at flat position (i - 1) * OUTPUT_WIDTH + j is (tgt_lats[i], tgt_lons[j])
TargetPoints ==
    [k \in 1..(OUTPUT_HEIGHT * OUTPUT_WIDTH) |->
        LET i == ((k - 1) \div OUTPUT_WIDTH) + 1
            j == ((k - 1) % OUTPUT_WIDTH) + 1
        IN  << tgt_lats[i] * LinDen(OUTPUT_WIDTH), tgt_lons[j] * LinDen(OUTPUT_HEIGHT) >>]

\* squared planar distance between target point p and source sample k
Dist2(p, src_lats, src_lons, k) ==
    (p[1] - src_lats[k] * CoordScale) * (p[1] - src_lats[k] * CoordScale)
  + (p[2] - src_lons[k] * CoordScale) * (p[2] - src_lons[k] * CoordScale)

\* tree.query(tgt_points, k=1): the indices a nearest-neighbour query may
\* return for p (any of the nearest, when several are equally near)
Nearest(p, src_lats, src_lons) ==
    { k \in DOMAIN src_lats :
        \A m \in DOMAIN src_lats :
            Dist2(p, src_lats, src_lons, k) <= Dist2(p, src_lats, src_lons, m) }

\* dist, idx = tree.query(tgt_points, k=1): every index array the query may
\* return for the first n target points
RECURSIVE QueryResults(_, _, _)
QueryResults(n, src_lats, src_lons) ==
    IF n = 0 THEN {<<>>}
    ELSE { Append(idx, k) :
             idx \in QueryResults(n - 1, src_lats, src_lons),
             k \in Nearest(TargetPoints[n], src_lats, src_lons) }

\* dist < 0.15: the slip of a strict cutoff
WithinCutoffStrict(d2) ==
    d2 < MaxDistance * MaxDistance * CoordScale * CoordScale

\* mask = dist <= 0.15
WithinCutoff(d2) ==
    d2 <= MaxDistance * MaxDistance * CoordScale * CoordScale

\* a.reshape(OUTPUT_HEIGHT, OUTPUT_WIDTH)
reshape(a) ==
    [i \in 1..OUTPUT_HEIGHT |-> [j \in 1..OUTPUT_WIDTH |-> a[(i - 1) * OUTPUT_WIDTH + j]]]

\* the slip of blending the nearest sample with the first sample of the field
SampleBlended(field, idx, k) == (field[idx[k]] + field[1]) \div 2

\* u_data.ravel()[idx]: the value at the index the query returned
Sample(field, idx, k) == field[idx[k]]

NoError == "none"

\* what the libraries raise for a source without samples: cKDTree rejects the
\* empty array (ValueError), or it builds an empty tree, query answers index
\* n = 0 for every point and u_data.ravel()[idx] raises IndexError
EmptySourceExceptions == {"ValueError", "IndexError"}

\* reproject_to_wgs84(u_data, v_data, lats, lons): build the target points,
\* query the nearest sample of each, copy its u and v, mask the distant
\* points and zero them
Reproject ==
    /\ ~resampled
    /\ resample_error = NoError
    /\ IF ~has_scipy
       THEN \* raise ImportError("scipy required for reprojection")
            /\ resample_error' = "ImportError"
            /\ UNCHANGED <<tgt_points, nn_idx, nn_dist2, mask, u_out, v_out, resampled>>
       ELSE IF Len(lats) = 0
       THEN \* no sample to index: the library raises, from the tree or from
            \* the fancy indexing of the empty u_data
            /\ resample_error' \in EmptySourceExceptions
            /\ UNCHANGED <<tgt_points, nn_idx, nn_dist2, mask, u_out, v_out, resampled>>
       ELSE /\ \E idx \in QueryResults(Len(TargetPoints), lats, lons) :
                  LET dist2 == [k \in DOMAIN TargetPoints |->
                                  Dist2(TargetPoints[k], lats, lons, idx[k])]
                      keep  == [k \in DOMAIN TargetPoints |-> WithinCutoff(dist2[k])]
                  IN  /\ nn_idx' = idx
                      /\ nn_dist2' = dist2
                      /\ mask' = reshape(keep)
                      /\ u_out' = reshape([k \in DOMAIN TargetPoints |->
                                             IF keep[k] THEN Sample(src_u, idx, k) ELSE 0])
                      /\ v_out' = reshape([k \in DOMAIN TargetPoints |->
                                             IF keep[k] THEN Sample(src_v, idx, k) ELSE 0])
            /\ tgt_points' = TargetPoints
            /\ resampled' = TRUE
            /\ UNCHANGED resample_error
    /\ UNCHANGED <<lats, lons, src_u, src_v, has_scipy, exceptResample>>

\* the true squared distance from the cell (i, j) of a north-up raster to the
\* nearest source sample, from the raster's definition: row 1 at north, the
\* last row at south, column 1 at west, the last column at east
CellPoint(i, j) ==
    << (OUTPUT_BOUNDS.north * (OUTPUT_HEIGHT - i) + OUTPUT_BOUNDS.south * (i - 1))
            * LinDen(OUTPUT_WIDTH),
       (OUTPUT_BOUNDS.west * (OUTPUT_WIDTH - j) + OUTPUT_BOUNDS.east * (j - 1))
            * LinDen(OUTPUT_HEIGHT) >>

CellDist2(i, j) ==
    LET k == CHOOSE n \in Nearest(CellPoint(i, j), lats, lons) : TRUE
    IN  Dist2(CellPoint(i, j), lats, lons, k)

CutoffSquared == MaxDistance * MaxDistance * CoordScale * CoordScale

\* C5: every target cell whose nearest source sample is farther than the
\* cutoff (0.15 degrees, planar) has valid_mask false, u = 0 and v = 0; a
\* cell at distance exactly the cutoff is still valid.
C5_DistanceCutoff ==
    resampled =>
        \A i \in 1..OUTPUT_HEIGHT : \A j \in 1..OUTPUT_WIDTH :
            /\ CellDist2(i, j) > CutoffSquared
                  => (~mask[i][j] /\ u_out[i][j] = 0 /\ v_out[i][j] = 0)
            /\ CellDist2(i, j) = CutoffSquared => mask[i][j]

\* a resampled field with a cell beyond the cutoff and a cell exactly at it
C5_Witness ==
    /\ resampled
    /\ \E i \in 1..OUTPUT_HEIGHT : \E j \in 1..OUTPUT_WIDTH :
          CellDist2(i, j) > CutoffSquared /\ ~mask[i][j]
    /\ \E i \in 1..OUTPUT_HEIGHT : \E j \in 1..OUTPUT_WIDTH :
          CellDist2(i, j) = CutoffSquared /\ mask[i][j] /\ u_out[i][j] # 0

\* C6: in the resampled field, row 0 holds the samples for latitude
\* target.north and the last row those for target.south, latitude strictly
\* decreasing by row and longitude strictly increasing by column from west
\* (column 0) to east (last column).
C6_NorthUpOrientation ==
    resampled =>
        \A i \in 1..OUTPUT_HEIGHT : \A j \in 1..OUTPUT_WIDTH :
            LET k == (i - 1) * OUTPUT_WIDTH + j
                p == tgt_points[k]
            IN  /\ i = 1 => p[1] = OUTPUT_BOUNDS.north * CoordScale
                /\ i = OUTPUT_HEIGHT => p[1] = OUTPUT_BOUNDS.south * CoordScale
                /\ j = 1 => p[2] = OUTPUT_BOUNDS.west * CoordScale
                /\ j = OUTPUT_WIDTH => p[2] = OUTPUT_BOUNDS.east * CoordScale
                /\ i < OUTPUT_HEIGHT => tgt_points[k + OUTPUT_WIDTH][1] < p[1]
                /\ j < OUTPUT_WIDTH => tgt_points[k + 1][2] > p[2]
                /\ p = CellPoint(i, j)
                \* the cell (i, j) of the output is the sample found for p
                /\ nn_dist2[k] = Dist2(p, lats, lons, nn_idx[k])
                /\ mask[i][j] = (nn_dist2[k] <= CutoffSquared)
                /\ mask[i][j] => ( /\ u_out[i][j] = src_u[nn_idx[k]]
                                   /\ v_out[i][j] = src_v[nn_idx[k]] )

\* a field whose northern row is valid and whose southern row is not, and
\* whose western column differs from its eastern one
C6_Witness ==
    /\ resampled
    /\ mask[1][1] /\ ~mask[OUTPUT_HEIGHT][1]
    /\ mask[1][1] # mask[1][OUTPUT_WIDTH]


\* C17: in the output of reproject_to_wgs84 every target cell whose nearest
\* source sample is within the cutoff carries exactly that sample's u and v
\* (no interpolation, u and v from the same source index) and has
\* valid_mask true.
C17_NearestNeighbourCopy ==
    resampled =>
        \A i \in 1..OUTPUT_HEIGHT : \A j \in 1..OUTPUT_WIDTH :
            CellDist2(i, j) <= CutoffSquared =>
                /\ mask[i][j]
                /\ \E k \in Nearest(CellPoint(i, j), lats, lons) :
                      u_out[i][j] = src_u[k] /\ v_out[i][j] = src_v[k]

\* a resampled field with two valid cells that took different source samples
C17_Witness ==
    /\ resampled
    /\ \E i, a \in 1..OUTPUT_HEIGHT : \E j, b \in 1..OUTPUT_WIDTH :
          /\ mask[i][j] /\ mask[a][b]
          /\ u_out[i][j] # u_out[a][b]
          /\ v_out[i][j] # v_out[a][b]

\* reproject_to_wgs84 was called and has returned or raised
ResampleEnded == resampled \/ resample_error # NoError

\* C16: resampling a source with zero samples fails with the dedicated
\* EmptySourceError before any output is produced, a missing spatial index
\* fails with a dependency-unavailable error, and in neither case is a
\* partially filled field returned.
C16_ResamplePreconditions ==
    ResampleEnded =>
        /\ ~has_scipy => resample_error = "ImportError"
        /\ (has_scipy /\ Len(lats) = 0) => resample_error = "EmptySourceError"
        /\ resample_error # NoError =>
              (~resampled /\ u_out = <<>> /\ v_out = <<>> /\ mask = <<>>)

(***************************************************************************)
(* TILE PARTITIONER: latlon_to_tile, tile_bounds, generate_tiles           *)
(*                                                                         *)
(* Longitudes are tenths of a degree and latitudes thousandths of a        *)
(* degree.  The two Mercator functions are tabulated: MercatorFraction     *)
(* for the latitudes a data box may have, TileEdgeLat for the tile edges.  *)
(***************************************************************************)
MIN_ZOOM == 0

\* max_zoom of the model (MAX_ZOOM is 6 in the script)
MaxZoom == 3

Pow2(z) == 2 ^ z

\* (1 - asinh(tan(radians(lat))) / pi) / 2, times 2^20 and cut to an integer,
\* for each latitude (thousandths of a degree) a data box may have
MercatorFraction ==
    << <<89000, -266976>>, <<85051, 4>>, <<52600, 343502>>, <<40000, 396969>>,
       <<25000, 449043>>, <<21100, 461391>>, <<0, 524288>>, <<-30000, 615959>>,
       <<-85051, 1048571>>, <<-87000, 1132176>>, <<-89000, 1315552>> >>

LatSamples == { MercatorFraction[k][1] : k \in DOMAIN MercatorFraction }

MercY(lat) ==
    LET k == CHOOSE m \in DOMAIN MercatorFraction : MercatorFraction[m][1] = lat
    IN  MercatorFraction[k][2]

\* degrees(atan(sinh(pi * (1 - 2 * m / 64)))) in thousandths of a degree, for
\* m = 0..128: the latitude of the tile edge y at zoom z is entry y * 64 / 2^z
\* (entries past 64 are the edges of rows below the last row of the scheme,
\* which the formula yields for y >= 2^z)
TileEdgeLat ==
    << 85051, 84541, 83979, 83360, 82676, 81923, 81093, 80179, 79171, 78062,
       76841, 75497, 74020, 72396, 70613, 68657, 66513, 64168, 61606, 58814,
       55777, 52483, 48922, 45089, 40980, 36598, 31952, 27059, 21943, 16636,
       11178, 5616, 0, -5616, -11178, -16636, -21943, -27059, -31952, -36598,
       -40980, -45089, -48922, -52483, -55777, -58814, -61606, -64168, -66513,
       -68657, -70613, -72396, -74020, -75497, -76841, -78062, -79171, -80179,
       -81093, -81923, -82676, -83360, -83979, -84541, -85051, -85513, -85933,
       -86313, -86657, -86970, -87253, -87510, -87743, -87954, -88145, -88318,
       -88476, -88618, -88747, -88864, -88971, -89067, -89154, -89233, -89305,
       -89370, -89429, -89482, -89531, -89575, -89614, -89650, -89683, -89713,
       -89740, -89764, -89786, -89806, -89824, -89841, -89856, -89869, -89881,
       -89892, -89902, -89912, -89920, -89927, -89934, -89940, -89946, -89951,
       -89956, -89960, -89963, -89967, -89970, -89973, -89975, -89978, -89980,
       -89982, -89983, -89985, -89986, -89988, -89989, -89990, -89991 >>

LonSamples == { -1800, -1341, -609, 0, 1700, 1800 }

\* u_data.shape: the HRRR grid, and a raster of a few pixels
ShapeSamples == { <<1059, 1799>>, <<2, 3>> }

\* latlon_to_tile(lat, lon, zoom):
\*   x = int((lon + 180) / 360 * n)
\*   y = int((1 - asinh(tan(lat_rad)) / pi) / 2 * n)
latlon_to_tile(lat, lon, z) ==
    << IntTrunc((lon + 1800) * Pow2(z), 3600),
       IntTrunc(MercY(lat) * Pow2(z), 1048576) >>

\* tile_bounds(x, y, zoom): (west, south, east, north); west and east are
\* returned times n = 2^zoom (x / n * 360 - 180, in tenths of a degree)
tile_bounds(x, y, z) ==
    [west_n  |-> 3600 * x - 1800 * Pow2(z),
     east_n  |-> 3600 * (x + 1) - 1800 * Pow2(z),
     north   |-> TileEdgeLat[y * (64 \div Pow2(z)) + 1],
     south   |-> TileEdgeLat[(y + 1) * (64 \div Pow2(z)) + 1]]

\* max_tile_x = max_tile_x: the slip of leaving out the upper clamp
ClampHighMissing(n, t) == t

\* max_tile_x = min(n - 1, max_tile_x)
ClampHigh(n, t) == Min(n - 1, t)

\* min_tile_x = max(0, min_tile_x)
ClampLow(t) == Max(0, t)

\* the tile range of one zoom level, lines 295-303
TileRange(b, z) ==
    LET nw == latlon_to_tile(b.north, b.west, z)
        se == latlon_to_tile(b.south, b.east, z)
        n  == Pow2(z)
    IN  \* min_tile_x, max_tile_y = latlon_to_tile(data_north, data_west, zoom)
        \* max_tile_x, min_tile_y = latlon_to_tile(data_south, data_east, zoom)
        [min_tile_x |-> ClampLow(nw[1]),
         max_tile_x |-> ClampHigh(n, se[1]),
         min_tile_y |-> ClampLow(se[2]),
         max_tile_y |-> ClampHigh(n, nw[2])]

\* the pixel rectangle of a tile in the source image, lines 311-324
CropRect(b, shape, x, y, z) ==
    LET t  == tile_bounds(x, y, z)
        n  == Pow2(z)
        img_height == shape[1]
        img_width  == shape[2]
        px_left   == IntTrunc((t.west_n - b.west * n) * img_width, (b.east - b.west) * n)
        px_right  == IntTrunc((t.east_n - b.west * n) * img_width, (b.east - b.west) * n)
        px_top    == IntTrunc((b.north - t.north) * img_height, b.north - b.south)
        px_bottom == IntTrunc((b.north - t.south) * img_height, b.north - b.south)
    IN  [left   |-> Max(0, px_left),
         right  |-> Min(img_width, px_right),
         top    |-> Max(0, px_top),
         bottom |-> Min(img_height, px_bottom)]

\* the slip of never skipping a tile
SkipTileNever(r) == FALSE

\* if px_left >= px_right or px_top >= px_bottom: continue
SkipTile(r) == r.left >= r.right \/ r.top >= r.bottom

\* the tiles one pass of the zoom loop saves, in loop order (tile_x outer,
\* tile_y inner)
TilesAtZoom(b, shape, z) ==
    LET r  == TileRange(b, z)
        nx == Max(0, r.max_tile_x - r.min_tile_x + 1)
        ny == Max(0, r.max_tile_y - r.min_tile_y + 1)
        all == [k \in 1..(nx * ny) |->
                  LET x == r.min_tile_x + ((k - 1) \div ny)
                      y == r.min_tile_y + ((k - 1) % ny)
                  IN  [zoom |-> z, x |-> x, y |-> y, crop |-> CropRect(b, shape, x, y, z)]]
        Kept(t) == ~SkipTile(t.crop)
    IN  SelectSeq(all, Kept)

\* one pass of `for zoom in range(min_zoom, max_zoom + 1)`: every tile of the
\* level is cropped, resized, saved and counted
GenerateZoom ==
    /\ ~tiles_returned
    /\ zoom <= MaxZoom
    /\ LET new == TilesAtZoom(bounds, img_shape, zoom)
       IN  /\ tiles' = tiles \o new
           /\ tile_count' = tile_count + Len(new)
    /\ zoom' = zoom + 1
    /\ UNCHANGED <<bounds, img_shape, tiles_returned, exceptTiles>>

\* return tile_count
ReturnTileCount ==
    /\ ~tiles_returned
    /\ zoom > MaxZoom
    /\ tiles_returned' = TRUE
    /\ UNCHANGED <<bounds, img_shape, zoom, tiles, tile_count, exceptTiles>>

\* the tile indices saved at zoom z
Saved(z) == { <<tiles[k].x, tiles[k].y>> : k \in { m \in DOMAIN tiles : tiles[m].zoom = z } }

\* tile (x, y) at zoom z and the data box share more than an edge
Overlaps(b, x, y, z) ==
    LET t == tile_bounds(x, y, z)
    IN  /\ t.west_n < b.east * Pow2(z) /\ b.west * Pow2(z) < t.east_n
        /\ t.south < b.north /\ b.south < t.north

\* tile (x, y) at zoom z and the data box share at least a point
Touches(b, x, y, z) ==
    LET t == tile_bounds(x, y, z)
    IN  /\ t.west_n <= b.east * Pow2(z) /\ b.west * Pow2(z) <= t.east_n
        /\ t.south <= b.north /\ b.south <= t.north

\* the data box lies inside the square the tile scheme covers
InsideMercator(b) == b.north <= TileEdgeLat[1] /\ b.south >= TileEdgeLat[65]

\* C7: for every zoom z and data box B, generate_tiles produces exactly one
\* tile for each index (x, y) in [0, 2^z-1]^2 whose bounding box intersects B,
\* none twice and none omitted; when B spans several tile rows, every row
\* from the one holding B's north edge to the one holding its south edge.
C7_TileCountConservation ==
    (InsideMercator(bounds) /\ img_shape = <<1059, 1799>>) =>
        /\ \A z \in MIN_ZOOM..(zoom - 1) :
              \A x \in 0..(Pow2(z) - 1) : \A y \in 0..(Pow2(z) - 1) :
                  /\ Overlaps(bounds, x, y, z) => <<x, y>> \in Saved(z)
                  /\ <<x, y>> \in Saved(z) => Touches(bounds, x, y, z)
        /\ \A k, m \in DOMAIN tiles :
              (tiles[k].zoom = tiles[m].zoom /\ tiles[k].x = tiles[m].x
                 /\ tiles[k].y = tiles[m].y) => k = m
        /\ tile_count = Len(tiles)

\* C8: every tile written at zoom z has 0 <= x <= 2^z - 1 and
\* 0 <= y <= 2^z - 1, for any data bounds (also bounds touching longitude
\* 180 or the Mercator latitude limits).
C8_TileIndicesInRange ==
    \A k \in DOMAIN tiles :
        /\ 0 <= tiles[k].x /\ tiles[k].x <= Pow2(tiles[k].zoom) - 1
        /\ 0 <= tiles[k].y /\ tiles[k].y <= Pow2(tiles[k].zoom) - 1

\* a finished run over a box that ends at longitude 180 and at the northern
\* Mercator limit, with a tile in the last column of a zoom level above 0
C8_Witness ==
    /\ tiles_returned
    /\ bounds.east = 1800
    /\ bounds.north = 85051
    /\ \E k \in DOMAIN tiles :
          tiles[k].zoom >= 1 /\ tiles[k].x = Pow2(tiles[k].zoom) - 1

\* the tile indices the loops of zoom z visit
Visited(z) ==
    LET r == TileRange(bounds, z)
    IN  (r.min_tile_x..r.max_tile_x) \X (r.min_tile_y..r.max_tile_y)

\* the pixel rectangle of tile (x, y) at zoom z has no pixel
EmptyCrop(x, y, z) ==
    LET r == CropRect(bounds, img_shape, x, y, z)
    IN  r.right - r.left <= 0 \/ r.bottom - r.top <= 0

\* C20: for every tile generate_tiles writes and counts, the rectangle
\* cropped from the source image has 0 <= left < right <= image width and
\* 0 <= top < bottom <= image height; a tile whose clipped rectangle has
\* zero width or zero height is neither written nor counted.
C20_CropRectangle ==
    /\ \A k \in DOMAIN tiles :
          LET r == tiles[k].crop
          IN  /\ 0 <= r.left /\ r.left < r.right /\ r.right <= img_shape[2]
              /\ 0 <= r.top /\ r.top < r.bottom /\ r.bottom <= img_shape[1]
    /\ \A z \in MIN_ZOOM..(zoom - 1) : \A t \in Visited(z) :
          EmptyCrop(t[1], t[2], z) => t \notin Saved(z)
    /\ tile_count = Len(tiles)

\* a finished run that wrote tiles and passed over a tile without pixels
C20_Witness ==
    /\ tiles_returned
    /\ tile_count >= 2
    /\ \E z \in MIN_ZOOM..MaxZoom : \E t \in Visited(z) :
          EmptyCrop(t[1], t[2], z) /\ t \notin Saved(z)

(***************************************************************************)
(* BATCH DRIVERS: extract_wind_from_grib.main with process_herbie and      *)
(* process_grib_files, and generate_wind_tiles.main                        *)
(*                                                                         *)
(* A step that calls into a library or the file system either returns or   *)
(* raises; the drivers catch what their code catches and nothing else.  An *)
(* exception no handler catches ends the process with exit status 1.       *)
(***************************************************************************)
\* the largest number of units in a batch
MaxUnits == 2

\* the largest number of tiles one unit's data yields
MaxTilesPerUnit == 2

\* the PNG and the JSON file of one unit of the extract script
ExtractArtifacts == 2

NoExit == -1

Entries == {"herbie", "legacy", "tiles"}

\* what an upload call can do: return, raise botocore's ClientError, or raise
\* anything else (no credentials, S3UploadFailedError, a connection error)
UploadResults == {"ok", "ClientError", "other"}

\* a run that uploads whatever its flags say
SinkAlways == TRUE

\* `if s3_bucket:` of the extract script; `not args.dry_run` in
\* generate_wind_tiles.main and `dry_run` inside its upload functions
SinkEnabled == s3_enabled

MinOf(S) == CHOOSE x \in S : \A y \in S : x <= y

\* the upload calls of one unit, in order, stop at the first that raises
\* something other than ClientError: the calls made, the artifacts that
\* reached the bucket, and whether an exception escaped
UploadRun(results) ==
    LET n      == Len(results)
        raised == { k \in 1..n : results[k] = "other" }
        last   == IF raised = {} THEN n ELSE MinOf(raised)
    IN  [calls   |-> last,
         sent    |-> { k \in 1..last : results[k] = "ok" },
         escaped |-> raised # {}]

Units == 1..num_units

\* the first statement of the loop body
FirstStep(e) == IF e = "legacy" THEN "parse" ELSE "download"

\* `continue` or the end of the loop body: on to the next unit, or past the loop
Advance(status) ==
    /\ outcome' = [outcome EXCEPT ![unit] = status]
    /\ unit' = unit + 1
    /\ pc' = IF unit + 1 > num_units THEN "finish" ELSE FirstStep(entry)
    /\ UNCHANGED exit_status

\* an exception leaves the loop and main: traceback, exit status 1
Raise ==
    /\ outcome' = [outcome EXCEPT ![unit] = "failed"]
    /\ pc' = "done"
    /\ exit_status' = 1
    /\ UNCHANGED <<unit, processed, latest_metadata>>

\* main up to the call of the batch function / the batch loop
StartRun ==
    /\ pc = "start"
    /\ IF entry # "tiles" /\ ~preflight_ok
       THEN \* sys.exit(1): Herbie or scipy not installed, or no input directory
            /\ pc' = "done"
            /\ exit_status' = 1
       ELSE /\ pc' = IF num_units = 0 THEN "finish" ELSE FirstStep(entry)
            /\ UNCHANGED exit_status
    /\ UNCHANGED <<entry, preflight_ok, s3_enabled, num_units, unit, processed,
                   outcome, latest_metadata, unit_tiles, sinkVars,
                   exceptBatch>>

\* process_grib_files: file_info = parse_grib_filename(file_path.name);
\* `continue` when it is None
ParseFilename ==
    /\ pc = "parse"
    /\ \E matched \in BOOLEAN :
          IF matched
          THEN /\ pc' = "download"
               /\ UNCHANGED <<unit, outcome, exit_status>>
          ELSE Advance("skipped")
    /\ UNCHANGED <<entry, preflight_ok, s3_enabled, num_units, processed,
                   latest_metadata, unit_tiles, sinkVars,
                   exceptBatch>>

\* download_herbie_wind / extract_wind_from_grib / download_wind_data: every
\* exception is caught inside and None is returned; the loop then continues
Download ==
    /\ pc = "download"
    /\ \E got_data \in BOOLEAN :
          IF got_data
          THEN /\ pc' = CASE entry = "herbie" -> "reproject"
                          [] entry = "legacy" -> "encode"
                          [] OTHER -> "generate"
               /\ latest_metadata' = (latest_metadata \/ entry = "tiles")
               /\ UNCHANGED <<unit, outcome, exit_status>>
          ELSE /\ Advance("skipped")
               /\ UNCHANGED latest_metadata
    /\ UNCHANGED <<entry, preflight_ok, s3_enabled, num_units, processed, unit_tiles, sinkVars,
                   exceptBatch>>

\* process_herbie: reproject_to_wgs84(...), called outside any try
ReprojectStep ==
    /\ pc = "reproject"
    /\ \E returns \in BOOLEAN :
          IF returns
          THEN /\ pc' = "encode"
               /\ UNCHANGED <<unit, processed, outcome, latest_metadata, exit_status>>
          ELSE Raise
    /\ UNCHANGED <<entry, preflight_ok, s3_enabled, num_units, unit_tiles, sinkVars,
                   exceptBatch>>

\* create_wind_image(...) / create_wind_image_legacy(...), outside any try
EncodeStep ==
    /\ pc = "encode"
    /\ \E returns \in BOOLEAN :
          IF returns
          THEN /\ pc' = "save"
               /\ UNCHANGED <<unit, processed, outcome, latest_metadata, exit_status>>
          ELSE Raise
    /\ UNCHANGED <<entry, preflight_ok, s3_enabled, num_units, unit_tiles, sinkVars,
                   exceptBatch>>

\* wind_img.save(png_path) and json.dump(metadata, f), outside any try; with
\* no bucket the loop body ends here with processed += 1
SaveStep ==
    /\ pc = "save"
    /\ \E returns \in BOOLEAN :
          IF ~returns
          THEN /\ Raise
               /\ UNCHANGED generated
          ELSE /\ generated' = [generated EXCEPT ![unit] = ExtractArtifacts]
               /\ IF SinkEnabled
                  THEN /\ pc' = "upload"
                       /\ UNCHANGED <<unit, processed, outcome, latest_metadata, exit_status>>
                  ELSE /\ Advance("processed")
                       /\ processed' = processed + 1
                       /\ UNCHANGED latest_metadata
    /\ UNCHANGED <<entry, preflight_ok, s3_enabled, num_units, unit_tiles, total_tiles,
                   published, sink_calls, metadata_published, metadata_puts,
                   metadata_hours, exceptBatch>>

\* generate_wind_tiles.main: generate_tiles(...), outside any try; with
\* --dry-run the loop body ends here
GenerateStep ==
    /\ pc = "generate"
    /\ \E returns \in BOOLEAN :
          IF ~returns
          THEN \* the exception leaves the tiles saved before it under output_dir
               /\ Raise
               /\ \E written \in 0..unit_tiles[unit] :
                     generated' = [generated EXCEPT ![unit] = written]
               /\ UNCHANGED total_tiles
          ELSE /\ generated' = [generated EXCEPT ![unit] = unit_tiles[unit]]
               /\ total_tiles' = total_tiles + unit_tiles[unit]
               /\ IF SinkEnabled
                  THEN /\ pc' = "upload"
                       /\ UNCHANGED <<unit, processed, outcome, latest_metadata, exit_status>>
                  ELSE /\ Advance("processed")
                       /\ UNCHANGED <<processed, latest_metadata>>
    /\ UNCHANGED <<entry, preflight_ok, s3_enabled, num_units, unit_tiles,
                   published, sink_calls, metadata_published, metadata_puts,
                   metadata_hours, exceptBatch>>

\* upload_to_s3 of either script: `except ClientError` logs and goes on, any
\* other exception propagates; the loop body ends after the upload
UploadStep ==
    /\ pc = "upload"
    \* generate_wind_tiles.upload_to_s3: `if dry_run: return 0` before any call
    /\ \E results \in [1..(IF SinkEnabled THEN generated[unit] ELSE 0) -> UploadResults] :
          LET run == UploadRun(results)
          IN  /\ published' = [published EXCEPT ![unit] = run.sent]
              /\ sink_calls' = sink_calls + run.calls
              /\ IF run.escaped
                 THEN Raise
                 ELSE /\ Advance("processed")
                      /\ processed' = IF entry = "tiles" THEN processed ELSE processed + 1
                      /\ UNCHANGED latest_metadata
    /\ UNCHANGED <<entry, preflight_ok, s3_enabled, num_units, unit_tiles, generated,
                   total_tiles, metadata_published, metadata_puts, metadata_hours,
                   exceptBatch>>

\* after the loop.  extract_wind_from_grib.main: sys.exit(0 if processed > 0
\* else 1).  generate_wind_tiles.main: upload_metadata when there is metadata
\* and no --dry-run, cleanup, and return (exit status 0)
Finish ==
    /\ pc = "finish"
    /\ IF entry = "tiles"
       THEN IF latest_metadata /\ SinkEnabled
            THEN /\ pc' = "metadata"
                 /\ UNCHANGED exit_status
            ELSE /\ pc' = "done"
                 /\ exit_status' = 0
       ELSE /\ pc' = "done"
            /\ exit_status' = IF processed > 0 THEN 0 ELSE 1
    /\ UNCHANGED <<entry, preflight_ok, s3_enabled, num_units, unit, processed,
                   outcome, latest_metadata, unit_tiles, sinkVars,
                   exceptBatch>>

\* latest_metadata['forecast_hours'] = [f"{fxx:02d}" for fxx in forecast_hours]:
\* every forecast hour of the command line
ListedHours == Units

\* upload_metadata: `except ClientError` logs; anything else propagates out of
\* main; otherwise cleanup and return
UploadMetadata ==
    /\ pc = "metadata"
    /\ IF ~SinkEnabled
       THEN \* `if dry_run: return`
            /\ pc' = "done"
            /\ exit_status' = 0
            /\ UNCHANGED <<metadata_published, sink_calls, metadata_puts, metadata_hours>>
       ELSE \E result \in UploadResults :
               /\ pc' = "done"
               /\ exit_status' = IF result = "other" THEN 1 ELSE 0
               /\ metadata_published' = (result = "ok")
               /\ metadata_puts' = metadata_puts + 1
               /\ metadata_hours' = IF result = "ok" THEN ListedHours ELSE {}
               /\ sink_calls' = sink_calls + 1
    /\ UNCHANGED <<entry, preflight_ok, s3_enabled, num_units, unit, processed,
                   outcome, latest_metadata, unit_tiles, generated, total_tiles,
                   published, exceptBatch>>

\* the units whose loop body ran to its end
Succeeded == { i \in Units : outcome[i] = "processed" }

\* the run entered its batch loop and the process has ended
BatchEnded == pc = "done" /\ (entry = "tiles" \/ preflight_ok)

\* C9: when a per-unit step (download/decode, resampling, encoding, writing
\* the artifacts) fails for one unit of a batch, that unit is skipped and every
\* remaining unit is still processed; one unit's failure never aborts the
\* batch.  So when the run has ended every unit was either skipped or
\* processed: none ended the run, none was left unattempted.
C9_SkipAndContinue ==
    BatchEnded => \A i \in Units : outcome[i] \in {"skipped", "processed"}

\* C10: a run ends with a non-zero exit status exactly when zero units of the
\* batch were processed successfully, for both entry points.
C10_FatalExitIffNothingProcessed ==
    pc = "done" => (exit_status # 0 <=> Succeeded = {})

\* C11: for every unit of generate_wind_tiles.main, the tiles uploaded to the
\* bucket are either all the tiles generated for the unit or none; failed
\* tile generation or partly failed uploads never leave a partial set.
C11_AllOrNothingPublication ==
    entry = "tiles" =>
        \A i \in Units : published[i] = {} \/ published[i] = 1..unit_tiles[i]

RECURSIVE SumTiles(_, _)
\* the tiles of the units in S, by the data of each unit
SumTiles(f, S) ==
    IF S = {} THEN 0
    ELSE LET i == CHOOSE x \in S : TRUE IN f[i] + SumTiles(f, S \ {i})

\* the units for which generate_tiles returned
Generated == { i \in Units : outcome[i] = "processed" \/ (i = unit /\ pc = "upload") }

\* C13: with --dry-run no call to the bucket is made (no tile and no metadata
\* object is uploaded), while download and tile generation still run for
\* every unit and give the tiles and the tile count they give without the
\* flag.
C13_DryRunSuppressesSink ==
    (entry = "tiles" /\ ~s3_enabled) =>
        /\ sink_calls = 0
        /\ metadata_published = FALSE
        /\ \A i \in Units : published[i] = {}
        /\ \A i \in Generated : generated[i] = unit_tiles[i]
        /\ total_tiles = SumTiles(unit_tiles, Generated)
        /\ (pc = "done" /\ exit_status = 0) =>
               \A i \in Units : outcome[i] \in {"skipped", "processed"}

\* a finished dry run of two units that generated tiles for both
C13_Witness ==
    /\ entry = "tiles" /\ ~s3_enabled
    /\ pc = "done" /\ exit_status = 0
    /\ num_units = 2
    /\ \A i \in Units : outcome[i] = "processed" /\ generated[i] >= 1
    /\ total_tiles >= 2

\* C23: in generate_wind_tiles.main the aggregate metadata record is
\* uploaded at most once per run, only after every requested forecast hour
\* has been processed or skipped, and the forecast_hours it lists are exactly
\* the forecast hours whose tiles were generated in that run (a forecast hour
\* skipped because its download failed is not listed).
C23_MetadataListsGeneratedHours ==
    entry = "tiles" =>
        /\ metadata_puts <= 1
        /\ metadata_puts = 1 =>
               \A i \in Units : outcome[i] \in {"skipped", "processed"}
        /\ metadata_published => metadata_hours = Succeeded

(***************************************************************************)
(* TWO RUNS SIDE BY SIDE                                                   *)
(*                                                                         *)
(* Two processes of the same script, each given one unit (a different      *)
(* forecast hour), share the local file system and the bucket.  Each step  *)
(* below is one statement group of main / process_herbie; the runs         *)
(* interleave step by step.  No call fails here: what is observed is only  *)
(* what one run does to the files and objects of the other.                *)
(***************************************************************************)
Runs == {1, 2}

NoRun == 0

\* the unit of a run: the runs are given different forecast hours
UnitOf(r) == r

\* output_dir = TEMP_DIR / timestamp / f"{fxx:02d}" holds tile_y.png files;
\* process_herbie writes wind_{date}_t{cycle}z_f{offset:02d}.png and .json
FilesOf(r) == { <<UnitOf(r), k>> : k \in 1..par_tiles[r] }

\* TEMP_DIR.mkdir(parents=True, exist_ok=True) / output_dir.mkdir(...)
ParMkdir(r) ==
    /\ par_pc[r] = "mkdir"
    /\ par_pc' = [par_pc EXCEPT ![r] = "write"]
    /\ UNCHANGED <<par_entry, par_tiles, keep_temp, local_files, bucket_objects,
                   bucket_metadata, clobbered, exceptPar>>

\* generate_tiles saves every tile under output_dir (tile_dir.mkdir(parents=
\* True) recreates missing directories); process_herbie saves the PNG and JSON
ParWrite(r) ==
    /\ par_pc[r] = "write"
    /\ local_files' = local_files \cup FilesOf(r)
    /\ clobbered' = clobbered \cup
          { o \in Runs \ {r} : FilesOf(o) \cap FilesOf(r) \cap local_files # {} }
    /\ par_pc' = [par_pc EXCEPT ![r] = "upload"]
    /\ UNCHANGED <<par_entry, par_tiles, keep_temp, bucket_objects,
                   bucket_metadata, exceptPar>>

\* upload_to_s3: generate_wind_tiles uploads what local_dir.rglob('*.png')
\* finds under the unit's output_dir; process_herbie uploads its two files
ParUpload(r) ==
    /\ par_pc[r] = "upload"
    /\ LET found == { f \in local_files : f[1] = UnitOf(r) }
       IN  /\ bucket_objects' = bucket_objects \cup found
           /\ clobbered' = clobbered \cup
                 { o \in Runs \ {r} : FilesOf(o) \cap found \cap bucket_objects # {} }
    /\ par_pc' = [par_pc EXCEPT ![r] = IF par_entry = "tiles" THEN "metadata" ELSE "done"]
    /\ UNCHANGED <<par_entry, par_tiles, keep_temp, local_files,
                   bucket_metadata, exceptPar>>

\* upload_metadata: put_object(Key=f"{prefix}/metadata.json"), the same key
\* for every run
ParUploadMetadata(r) ==
    /\ par_pc[r] = "metadata"
    /\ bucket_metadata' = r
    /\ clobbered' = clobbered \cup
          (IF bucket_metadata \in Runs \ {r} THEN {bucket_metadata} ELSE {})
    /\ par_pc' = [par_pc EXCEPT ![r] = "cleanup"]
    /\ UNCHANGED <<par_entry, par_tiles, keep_temp, local_files,
                   bucket_objects, exceptPar>>

\* if not args.keep_temp: shutil.rmtree(TEMP_DIR, ignore_errors=True)
ParCleanup(r) ==
    /\ par_pc[r] = "cleanup"
    /\ IF keep_temp[r]
       THEN UNCHANGED <<local_files, clobbered>>
       ELSE /\ local_files' = {}
            /\ clobbered' = clobbered \cup
                  { o \in Runs \ {r} : FilesOf(o) \cap local_files # {} }
    /\ par_pc' = [par_pc EXCEPT ![r] = "done"]
    /\ UNCHANGED <<par_entry, par_tiles, keep_temp, bucket_objects,
                   bucket_metadata, exceptPar>>

\* C12: two runs for different units, under any interleaving of their steps,
\* write disjoint artifacts, neither deletes or overwrites a file or object
\* the other produced, and each run publishes exactly what it would publish
\* alone (all the files of its unit).
C12_ParallelIndependence ==
    /\ clobbered = {}
    /\ \A r \in Runs :
          par_pc[r] \in {"metadata", "cleanup", "done"} => FilesOf(r) \subseteq bucket_objects

(***************************************************************************)
(* LONGITUDE CONVERSION: download_herbie_wind, extract_wind_from_grib,     *)
(* download_wind_data.  Longitudes are hundredths of a degree.             *)
(***************************************************************************)
\* the number of longitudes of a grid in the model
LonLen == 2

HalfTurn == 18000

FullTurn == 36000

\* longitudes of a 0..360 file: the ends, both sides of 180, and HRRR's range
RawLonSamples == { 0, 1, 9000, 17999, 18000, 18001, 22590, 29910, 35999, 36000 }

NoLons == <<>>

SeqMax(q) == CHOOSE x \in { q[k] : k \in DOMAIN q } : \A k \in DOMAIN q : q[k] <= x

\* np.where(lons > 180, lons - 360, lons)
where_gt_180(l) == [k \in DOMAIN l |-> IF l[k] > HalfTurn THEN l[k] - FullTurn ELSE l[k]]

\* download_herbie_wind: if lons.max() > 180: lons = np.where(...)
NormalizeHerbie ==
    /\ norm_lons = NoLons
    /\ norm_lons' = IF SeqMax(raw_lons) > HalfTurn THEN where_gt_180(raw_lons) ELSE raw_lons
    /\ lon_decoder' = "herbie"
    /\ UNCHANGED <<raw_lons, exceptLon>>

\* extract_wind_from_grib: if lons is not None and lons.max() > 180: ...
NormalizeLegacy ==
    /\ norm_lons = NoLons
    /\ norm_lons' = IF SeqMax(raw_lons) > HalfTurn THEN where_gt_180(raw_lons) ELSE raw_lons
    /\ lon_decoder' = "legacy"
    /\ UNCHANGED <<raw_lons, exceptLon>>

\* download_wind_data: lons = np.where(lons > 180, lons - 360, lons)
NormalizeTiles ==
    /\ norm_lons = NoLons
    /\ norm_lons' = where_gt_180(raw_lons)
    /\ lon_decoder' = "tiles"
    /\ UNCHANGED <<raw_lons, exceptLon>>

\* C15: after the decode step every longitude handed on lies in [-180, 180),
\* for every input longitude in [0, 360], exactly 180 and exactly 360 included.
C15_LongitudeNormalized ==
    norm_lons # NoLons =>
        \A k \in DOMAIN norm_lons : -HalfTurn <= norm_lons[k] /\ norm_lons[k] < HalfTurn

(***************************************************************************)
(* LEGACY ENCODER: create_wind_image_legacy on a grid of several columns   *)
(***************************************************************************)
\* the columns of a GRIB grid in the model
GribCols == {1, 2}

\* cells of a GRIB grid, by column: a missing value or a wind in the first
\* column, calm or another wind in the second
GribCellSamples(j) ==
    IF j = 1 THEN { <<NaN, 0>>, <<300, -400>> } ELSE { <<0, 0>>, <<-120, 70>> }

\* one pixel of create_wind_image(u, v) without a mask, from its cell
Pixel(u, v, c) ==
    << extract_encode_cell(u, c), extract_encode_cell(v, c),
       magnitude_byte(u, v, c), extract_alpha(u, v, FALSE, FALSE) >>

\* process_grib_files: wind_img = create_wind_image_legacy(u_data, v_data)
EncodeLegacy ==
    /\ legacy_call = "none"
    /\ \E c \in CastOutcomes(grib_u, grib_v) :
          /\ legacy_cast' = c
          /\ legacy_img' = create_wind_image_legacy(grib_u, grib_v, c)
    /\ legacy_call' = "legacy"
    /\ UNCHANGED <<grib_u, grib_v, exceptLegacy>>

\* a caller that has flipped the grid itself:
\* create_wind_image_legacy(np.flipud(u_data), np.flipud(v_data))
EncodeLegacyReflipped ==
    /\ legacy_call = "none"
    /\ \E c \in CastOutcomes(grib_u, grib_v) :
          /\ legacy_cast' = c
          /\ legacy_img' = create_wind_image_legacy(flipud(grib_u), flipud(grib_v), c)
    /\ legacy_call' = "reflipped"
    /\ UNCHANGED <<grib_u, grib_v, exceptLegacy>>

\* C21: create_wind_image_legacy encodes the input with rows reversed and
\* nothing else changed: output row i is the encoding of input row H - 1 - i
\* (rows counted from 0) and columns are unchanged, so that applying the flip
\* twice gives the image of the plain encoder.
C21_LegacyFlip ==
    legacy_call # "none" =>
        LET H == Len(grib_u)
        IN  /\ DOMAIN legacy_img = 1..H
            /\ \A i \in 1..H :
                  /\ DOMAIN legacy_img[i] = GribCols
                  /\ \A j \in GribCols :
                        LET src == IF legacy_call = "legacy" THEN H + 1 - i ELSE i
                        IN  legacy_img[i][j] =
                               Pixel(grib_u[src][j], grib_v[src][j], legacy_cast)

\* a legacy image of a grid whose rows differ and whose columns differ, with
\* the first input row in the last image row
C21_Witness ==
    /\ legacy_call = "legacy"
    /\ legacy_img[1] # legacy_img[Len(legacy_img)]
    /\ \E i \in DOMAIN legacy_img : legacy_img[i][1] # legacy_img[i][2]
    /\ legacy_img[Len(legacy_img)][1] = Pixel(grib_u[1][1], grib_v[1][1], legacy_cast)

(***************************************************************************)
(* SPECIFICATIONS: one per component; the other components stay idle.      *)
(***************************************************************************)
InitCycle ==
    /\ target_time \in TargetTimes
    /\ selection = NoSelection
    /\ fxx_offset \in 0..MaxOffset
    /\ artifact_name = NoName
    /\ wind_value = 0 /\ encoder = "none" /\ encoded = NoByte /\ decoded = NotDecoded
    /\ u_data = <<>> /\ v_data = <<>> /\ valid_mask = NoMask
    /\ wind_img = NoImage /\ img_call = "none" /\ nan_cast = 0
    /\ lats = <<>> /\ lons = <<>> /\ src_u = <<>> /\ src_v = <<>>
    /\ tgt_points = <<>> /\ nn_dist2 = <<>> /\ nn_idx = <<>>
    /\ u_out = <<>> /\ v_out = <<>> /\ mask = <<>> /\ resampled = FALSE
    /\ has_scipy = FALSE /\ resample_error = NoError
    /\ bounds = [west |-> 0, east |-> 0, south |-> 0, north |-> 0]
    /\ img_shape = <<0, 0>> /\ zoom = 0 /\ tiles = <<>>
    /\ tile_count = 0 /\ tiles_returned = FALSE
    /\ entry = "none" /\ preflight_ok = FALSE /\ s3_enabled = FALSE
    /\ num_units = 0 /\ unit = 1 /\ pc = "idle" /\ processed = 0
    /\ outcome = <<>> /\ latest_metadata = FALSE /\ exit_status = NoExit
    /\ unit_tiles = <<>> /\ generated = <<>> /\ total_tiles = 0
    /\ published = <<>> /\ sink_calls = 0 /\ metadata_published = FALSE
    /\ metadata_puts = 0 /\ metadata_hours = {}
    /\ par_entry = "none" /\ par_pc = <<>> /\ par_tiles = <<>> /\ keep_temp = <<>>
    /\ local_files = {} /\ bucket_objects = {} /\ bucket_metadata = NoRun
    /\ clobbered = {}
    /\ raw_lons = <<>> /\ norm_lons = NoLons /\ lon_decoder = "none"
    /\ grib_u = <<>> /\ grib_v = <<>> /\ legacy_call = "none"
    /\ legacy_cast = 0 /\ legacy_img = NoImage

NextCycle == ResolveCycle \/ NameArtifacts \/ NewTarget

SpecCycle == InitCycle /\ [][NextCycle]_vars

InitScalar ==
    /\ target_time = 0 /\ selection = NoSelection
    /\ fxx_offset = 0 /\ artifact_name = NoName
    /\ wind_value \in ScalarValues
    /\ encoder = "none" /\ encoded = NoByte /\ decoded = NotDecoded
    /\ u_data = <<>> /\ v_data = <<>> /\ valid_mask = NoMask
    /\ wind_img = NoImage /\ img_call = "none" /\ nan_cast = 0
    /\ lats = <<>> /\ lons = <<>> /\ src_u = <<>> /\ src_v = <<>>
    /\ tgt_points = <<>> /\ nn_dist2 = <<>> /\ nn_idx = <<>>
    /\ u_out = <<>> /\ v_out = <<>> /\ mask = <<>> /\ resampled = FALSE
    /\ has_scipy = FALSE /\ resample_error = NoError
    /\ bounds = [west |-> 0, east |-> 0, south |-> 0, north |-> 0]
    /\ img_shape = <<0, 0>> /\ zoom = 0 /\ tiles = <<>>
    /\ tile_count = 0 /\ tiles_returned = FALSE
    /\ entry = "none" /\ preflight_ok = FALSE /\ s3_enabled = FALSE
    /\ num_units = 0 /\ unit = 1 /\ pc = "idle" /\ processed = 0
    /\ outcome = <<>> /\ latest_metadata = FALSE /\ exit_status = NoExit
    /\ unit_tiles = <<>> /\ generated = <<>> /\ total_tiles = 0
    /\ published = <<>> /\ sink_calls = 0 /\ metadata_published = FALSE
    /\ metadata_puts = 0 /\ metadata_hours = {}
    /\ par_entry = "none" /\ par_pc = <<>> /\ par_tiles = <<>> /\ keep_temp = <<>>
    /\ local_files = {} /\ bucket_objects = {} /\ bucket_metadata = NoRun
    /\ clobbered = {}
    /\ raw_lons = <<>> /\ norm_lons = NoLons /\ lon_decoder = "none"
    /\ grib_u = <<>> /\ grib_v = <<>> /\ legacy_call = "none"
    /\ legacy_cast = 0 /\ legacy_img = NoImage

NextScalar == EncodeTiles \/ EncodeExtract \/ Decode

SpecScalar == InitScalar /\ [][NextScalar]_vars

InitImage ==
    /\ target_time = 0 /\ selection = NoSelection
    /\ fxx_offset = 0 /\ artifact_name = NoName
    /\ wind_value = 0 /\ encoder = "none" /\ encoded = NoByte /\ decoded = NotDecoded
    /\ \E cells \in [Rows -> [Cols -> CellSamples]] :
       \E vmask \in {NoMask} \cup [Rows -> [Cols -> BOOLEAN]] :
          /\ valid_mask = vmask
          /\ u_data = MaskedField(cells, vmask, 1)
          /\ v_data = MaskedField(cells, vmask, 2)
    /\ wind_img = NoImage /\ img_call = "none" /\ nan_cast = 0
    /\ lats = <<>> /\ lons = <<>> /\ src_u = <<>> /\ src_v = <<>>
    /\ tgt_points = <<>> /\ nn_dist2 = <<>> /\ nn_idx = <<>>
    /\ u_out = <<>> /\ v_out = <<>> /\ mask = <<>> /\ resampled = FALSE
    /\ has_scipy = FALSE /\ resample_error = NoError
    /\ bounds = [west |-> 0, east |-> 0, south |-> 0, north |-> 0]
    /\ img_shape = <<0, 0>> /\ zoom = 0 /\ tiles = <<>>
    /\ tile_count = 0 /\ tiles_returned = FALSE
    /\ entry = "none" /\ preflight_ok = FALSE /\ s3_enabled = FALSE
    /\ num_units = 0 /\ unit = 1 /\ pc = "idle" /\ processed = 0
    /\ outcome = <<>> /\ latest_metadata = FALSE /\ exit_status = NoExit
    /\ unit_tiles = <<>> /\ generated = <<>> /\ total_tiles = 0
    /\ published = <<>> /\ sink_calls = 0 /\ metadata_published = FALSE
    /\ metadata_puts = 0 /\ metadata_hours = {}
    /\ par_entry = "none" /\ par_pc = <<>> /\ par_tiles = <<>> /\ keep_temp = <<>>
    /\ local_files = {} /\ bucket_objects = {} /\ bucket_metadata = NoRun
    /\ clobbered = {}
    /\ raw_lons = <<>> /\ norm_lons = NoLons /\ lon_decoder = "none"
    /\ grib_u = <<>> /\ grib_v = <<>> /\ legacy_call = "none"
    /\ legacy_cast = 0 /\ legacy_img = NoImage

NextImage == CreateWindImageTiles \/ CreateWindImageExtract \/ CreateWindImageLegacy

SpecImage == InitImage /\ [][NextImage]_vars

InitResample ==
    /\ target_time = 0 /\ selection = NoSelection
    /\ fxx_offset = 0 /\ artifact_name = NoName
    /\ wind_value = 0 /\ encoder = "none" /\ encoded = NoByte /\ decoded = NotDecoded
    /\ u_data = <<>> /\ v_data = <<>> /\ valid_mask = NoMask
    /\ wind_img = NoImage /\ img_call = "none" /\ nan_cast = 0
    \* a grid of NumSrc samples, or a grid without samples
    /\ \E n \in {0, NumSrc} :
          /\ lats \in [1..n -> SrcLats]
          /\ lons \in [1..n -> SrcLons]
          /\ src_u = [k \in 1..n |-> SrcU[k]]
          /\ src_v = [k \in 1..n |-> SrcV[k]]
    \* the samples of a grid lie at different places
    /\ \A a, b \in DOMAIN lats : (lats[a] = lats[b] /\ lons[a] = lons[b]) => a = b
    /\ tgt_points = <<>> /\ nn_dist2 = <<>> /\ nn_idx = <<>>
    /\ u_out = <<>> /\ v_out = <<>> /\ mask = <<>> /\ resampled = FALSE
    /\ has_scipy \in BOOLEAN /\ resample_error = NoError
    /\ bounds = [west |-> 0, east |-> 0, south |-> 0, north |-> 0]
    /\ img_shape = <<0, 0>> /\ zoom = 0 /\ tiles = <<>>
    /\ tile_count = 0 /\ tiles_returned = FALSE
    /\ entry = "none" /\ preflight_ok = FALSE /\ s3_enabled = FALSE
    /\ num_units = 0 /\ unit = 1 /\ pc = "idle" /\ processed = 0
    /\ outcome = <<>> /\ latest_metadata = FALSE /\ exit_status = NoExit
    /\ unit_tiles = <<>> /\ generated = <<>> /\ total_tiles = 0
    /\ published = <<>> /\ sink_calls = 0 /\ metadata_published = FALSE
    /\ metadata_puts = 0 /\ metadata_hours = {}
    /\ par_entry = "none" /\ par_pc = <<>> /\ par_tiles = <<>> /\ keep_temp = <<>>
    /\ local_files = {} /\ bucket_objects = {} /\ bucket_metadata = NoRun
    /\ clobbered = {}
    /\ raw_lons = <<>> /\ norm_lons = NoLons /\ lon_decoder = "none"
    /\ grib_u = <<>> /\ grib_v = <<>> /\ legacy_call = "none"
    /\ legacy_cast = 0 /\ legacy_img = NoImage

NextResample == Reproject

SpecResample == InitResample /\ [][NextResample]_vars

InitTiles ==
    /\ target_time = 0 /\ selection = NoSelection
    /\ fxx_offset = 0 /\ artifact_name = NoName
    /\ wind_value = 0 /\ encoder = "none" /\ encoded = NoByte /\ decoded = NotDecoded
    /\ u_data = <<>> /\ v_data = <<>> /\ valid_mask = NoMask
    /\ wind_img = NoImage /\ img_call = "none" /\ nan_cast = 0
    /\ lats = <<>> /\ lons = <<>> /\ src_u = <<>> /\ src_v = <<>>
    /\ tgt_points = <<>> /\ nn_dist2 = <<>> /\ nn_idx = <<>>
    /\ u_out = <<>> /\ v_out = <<>> /\ mask = <<>> /\ resampled = FALSE
    /\ has_scipy = FALSE /\ resample_error = NoError
    \* metadata['bounds'] are the minimum and maximum of a grid's coordinates
    /\ \E w, e \in LonSamples : \E so, no \in LatSamples :
          /\ w < e /\ so < no
          /\ bounds = [west |-> w, east |-> e, south |-> so, north |-> no]
    /\ img_shape \in ShapeSamples
    /\ zoom = MIN_ZOOM /\ tiles = <<>>
    /\ tile_count = 0 /\ tiles_returned = FALSE
    /\ entry = "none" /\ preflight_ok = FALSE /\ s3_enabled = FALSE
    /\ num_units = 0 /\ unit = 1 /\ pc = "idle" /\ processed = 0
    /\ outcome = <<>> /\ latest_metadata = FALSE /\ exit_status = NoExit
    /\ unit_tiles = <<>> /\ generated = <<>> /\ total_tiles = 0
    /\ published = <<>> /\ sink_calls = 0 /\ metadata_published = FALSE
    /\ metadata_puts = 0 /\ metadata_hours = {}
    /\ par_entry = "none" /\ par_pc = <<>> /\ par_tiles = <<>> /\ keep_temp = <<>>
    /\ local_files = {} /\ bucket_objects = {} /\ bucket_metadata = NoRun
    /\ clobbered = {}
    /\ raw_lons = <<>> /\ norm_lons = NoLons /\ lon_decoder = "none"
    /\ grib_u = <<>> /\ grib_v = <<>> /\ legacy_call = "none"
    /\ legacy_cast = 0 /\ legacy_img = NoImage

NextTiles == GenerateZoom \/ ReturnTileCount

SpecTiles == InitTiles /\ [][NextTiles]_vars

InitBatch ==
    /\ target_time = 0 /\ selection = NoSelection
    /\ fxx_offset = 0 /\ artifact_name = NoName
    /\ wind_value = 0 /\ encoder = "none" /\ encoded = NoByte /\ decoded = NotDecoded
    /\ u_data = <<>> /\ v_data = <<>> /\ valid_mask = NoMask
    /\ wind_img = NoImage /\ img_call = "none" /\ nan_cast = 0
    /\ lats = <<>> /\ lons = <<>> /\ src_u = <<>> /\ src_v = <<>>
    /\ tgt_points = <<>> /\ nn_dist2 = <<>> /\ nn_idx = <<>>
    /\ u_out = <<>> /\ v_out = <<>> /\ mask = <<>> /\ resampled = FALSE
    /\ has_scipy = FALSE /\ resample_error = NoError
    /\ bounds = [west |-> 0, east |-> 0, south |-> 0, north |-> 0]
    /\ img_shape = <<0, 0>> /\ zoom = 0 /\ tiles = <<>>
    /\ tile_count = 0 /\ tiles_returned = FALSE
    /\ entry \in Entries
    /\ preflight_ok \in BOOLEAN
    /\ s3_enabled \in BOOLEAN
    \* --forecast-hours of the extract script always names at least one hour
    /\ num_units \in (IF entry = "herbie" THEN 1 ELSE 0)..MaxUnits
    /\ unit = 1 /\ pc = "start" /\ processed = 0
    /\ outcome = [i \in 1..num_units |-> "pending"]
    /\ latest_metadata = FALSE /\ exit_status = NoExit
    /\ unit_tiles \in [1..num_units -> IF entry = "tiles" THEN 0..MaxTilesPerUnit ELSE {0}]
    /\ generated = [i \in 1..num_units |-> 0]
    /\ total_tiles = 0
    /\ published = [i \in 1..num_units |-> {}]
    /\ sink_calls = 0 /\ metadata_published = FALSE
    /\ metadata_puts = 0 /\ metadata_hours = {}
    /\ par_entry = "none" /\ par_pc = <<>> /\ par_tiles = <<>> /\ keep_temp = <<>>
    /\ local_files = {} /\ bucket_objects = {} /\ bucket_metadata = NoRun
    /\ clobbered = {}
    /\ raw_lons = <<>> /\ norm_lons = NoLons /\ lon_decoder = "none"
    /\ grib_u = <<>> /\ grib_v = <<>> /\ legacy_call = "none"
    /\ legacy_cast = 0 /\ legacy_img = NoImage

NextBatch ==
    \/ StartRun \/ ParseFilename \/ Download \/ ReprojectStep \/ EncodeStep
    \/ SaveStep \/ GenerateStep \/ UploadStep \/ Finish \/ UploadMetadata

SpecBatch == InitBatch /\ [][NextBatch]_vars

InitParallel ==
    /\ target_time = 0 /\ selection = NoSelection
    /\ fxx_offset = 0 /\ artifact_name = NoName
    /\ wind_value = 0 /\ encoder = "none" /\ encoded = NoByte /\ decoded = NotDecoded
    /\ u_data = <<>> /\ v_data = <<>> /\ valid_mask = NoMask
    /\ wind_img = NoImage /\ img_call = "none" /\ nan_cast = 0
    /\ lats = <<>> /\ lons = <<>> /\ src_u = <<>> /\ src_v = <<>>
    /\ tgt_points = <<>> /\ nn_dist2 = <<>> /\ nn_idx = <<>>
    /\ u_out = <<>> /\ v_out = <<>> /\ mask = <<>> /\ resampled = FALSE
    /\ has_scipy = FALSE /\ resample_error = NoError
    /\ bounds = [west |-> 0, east |-> 0, south |-> 0, north |-> 0]
    /\ img_shape = <<0, 0>> /\ zoom = 0 /\ tiles = <<>>
    /\ tile_count = 0 /\ tiles_returned = FALSE
    /\ entry = "none" /\ preflight_ok = FALSE /\ s3_enabled = FALSE
    /\ num_units = 0 /\ unit = 1 /\ pc = "idle" /\ processed = 0
    /\ outcome = <<>> /\ latest_metadata = FALSE /\ exit_status = NoExit
    /\ unit_tiles = <<>> /\ generated = <<>> /\ total_tiles = 0
    /\ published = <<>> /\ sink_calls = 0 /\ metadata_published = FALSE
    /\ metadata_puts = 0 /\ metadata_hours = {}
    /\ par_entry \in {"herbie", "tiles"}
    /\ par_pc = [r \in Runs |-> "mkdir"]
    /\ par_tiles \in [Runs -> IF par_entry = "tiles" THEN 1..MaxTilesPerUnit
                                                    ELSE {ExtractArtifacts}]
    \* the extract script has no cleanup step
    /\ keep_temp \in [Runs -> IF par_entry = "tiles" THEN BOOLEAN ELSE {TRUE}]
    /\ local_files = {} /\ bucket_objects = {} /\ bucket_metadata = NoRun
    /\ clobbered = {}
    /\ raw_lons = <<>> /\ norm_lons = NoLons /\ lon_decoder = "none"
    /\ grib_u = <<>> /\ grib_v = <<>> /\ legacy_call = "none"
    /\ legacy_cast = 0 /\ legacy_img = NoImage

NextParallel ==
    \E r \in Runs :
        \/ ParMkdir(r) \/ ParWrite(r) \/ ParUpload(r)
        \/ ParUploadMetadata(r) \/ ParCleanup(r)

SpecParallel == InitParallel /\ [][NextParallel]_vars

InitLon ==
    /\ target_time = 0 /\ selection = NoSelection
    /\ fxx_offset = 0 /\ artifact_name = NoName
    /\ wind_value = 0 /\ encoder = "none" /\ encoded = NoByte /\ decoded = NotDecoded
    /\ u_data = <<>> /\ v_data = <<>> /\ valid_mask = NoMask
    /\ wind_img = NoImage /\ img_call = "none" /\ nan_cast = 0
    /\ lats = <<>> /\ lons = <<>> /\ src_u = <<>> /\ src_v = <<>>
    /\ tgt_points = <<>> /\ nn_dist2 = <<>> /\ nn_idx = <<>>
    /\ u_out = <<>> /\ v_out = <<>> /\ mask = <<>> /\ resampled = FALSE
    /\ has_scipy = FALSE /\ resample_error = NoError
    /\ bounds = [west |-> 0, east |-> 0, south |-> 0, north |-> 0]
    /\ img_shape = <<0, 0>> /\ zoom = 0 /\ tiles = <<>>
    /\ tile_count = 0 /\ tiles_returned = FALSE
    /\ entry = "none" /\ preflight_ok = FALSE /\ s3_enabled = FALSE
    /\ num_units = 0 /\ unit = 1 /\ pc = "idle" /\ processed = 0
    /\ outcome = <<>> /\ latest_metadata = FALSE /\ exit_status = NoExit
    /\ unit_tiles = <<>> /\ generated = <<>> /\ total_tiles = 0
    /\ published = <<>> /\ sink_calls = 0 /\ metadata_published = FALSE
    /\ metadata_puts = 0 /\ metadata_hours = {}
    /\ par_entry = "none" /\ par_pc = <<>> /\ par_tiles = <<>> /\ keep_temp = <<>>
    /\ local_files = {} /\ bucket_objects = {} /\ bucket_metadata = NoRun
    /\ clobbered = {}
    /\ raw_lons \in [1..LonLen -> RawLonSamples]
    /\ norm_lons = NoLons /\ lon_decoder = "none"
    /\ grib_u = <<>> /\ grib_v = <<>> /\ legacy_call = "none"
    /\ legacy_cast = 0 /\ legacy_img = NoImage

NextLon == NormalizeHerbie \/ NormalizeLegacy \/ NormalizeTiles

SpecLon == InitLon /\ [][NextLon]_vars

InitLegacy ==
    /\ target_time = 0 /\ selection = NoSelection
    /\ fxx_offset = 0 /\ artifact_name = NoName
    /\ wind_value = 0 /\ encoder = "none" /\ encoded = NoByte /\ decoded = NotDecoded
    /\ u_data = <<>> /\ v_data = <<>> /\ valid_mask = NoMask
    /\ wind_img = NoImage /\ img_call = "none" /\ nan_cast = 0
    /\ lats = <<>> /\ lons = <<>> /\ src_u = <<>> /\ src_v = <<>>
    /\ tgt_points = <<>> /\ nn_dist2 = <<>> /\ nn_idx = <<>>
    /\ u_out = <<>> /\ v_out = <<>> /\ mask = <<>> /\ resampled = FALSE
    /\ has_scipy = FALSE /\ resample_error = NoError
    /\ bounds = [west |-> 0, east |-> 0, south |-> 0, north |-> 0]
    /\ img_shape = <<0, 0>> /\ zoom = 0 /\ tiles = <<>>
    /\ tile_count = 0 /\ tiles_returned = FALSE
    /\ entry = "none" /\ preflight_ok = FALSE /\ s3_enabled = FALSE
    /\ num_units = 0 /\ unit = 1 /\ pc = "idle" /\ processed = 0
    /\ outcome = <<>> /\ latest_metadata = FALSE /\ exit_status = NoExit
    /\ unit_tiles = <<>> /\ generated = <<>> /\ total_tiles = 0
    /\ published = <<>> /\ sink_calls = 0 /\ metadata_published = FALSE
    /\ metadata_puts = 0 /\ metadata_hours = {}
    /\ par_entry = "none" /\ par_pc = <<>> /\ par_tiles = <<>> /\ keep_temp = <<>>
    /\ local_files = {} /\ bucket_objects = {} /\ bucket_metadata = NoRun
    /\ clobbered = {}
    /\ raw_lons = <<>> /\ norm_lons = NoLons /\ lon_decoder = "none"
    /\ \E cells \in [Rows -> [GribCols -> UNION {GribCellSamples(j) : j \in GribCols}]] :
          /\ \A i \in Rows : \A j \in GribCols : cells[i][j] \in GribCellSamples(j)
          /\ grib_u = [i \in Rows |-> [j \in GribCols |-> cells[i][j][1]]]
          /\ grib_v = [i \in Rows |-> [j \in GribCols |-> cells[i][j][2]]]
    /\ legacy_call = "none" /\ legacy_cast = 0 /\ legacy_img = NoImage

NextLegacy == EncodeLegacy \/ EncodeLegacyReflipped

SpecLegacy == InitLegacy /\ [][NextLegacy]_vars

=============================================================================
